---- MODULE Spec2Model ----
(***************************************************************************)
(* AgentHelper: tool status, install-method selection and the install /    *)
(* update orchestrators, in the Go implementation (internal/manager,       *)
(* internal/commands) and the PowerShell implementation (agenthelper.ps1). *)
(*                                                                         *)
(* Text is modelled as a sequence of one-character strings, so that        *)
(* trimming, splitting and number parsing are computed, not assumed.       *)
(***************************************************************************)
EXTENDS Integers, Sequences, FiniteSets, TLC

VARIABLES
    os,         \* runtime.GOOS of the host
    path,       \* the executables resolvable on the search path
    impl,       \* which implementation runs: "go" or "ps"
    main,       \* position of GetAllToolStatus / Get-AllToolStatus
    next,       \* the loop index of the aggregator
    wg,         \* the sync.WaitGroup counter
    pc,         \* position of each per-tool goroutine
    args,       \* the (idx, t) arguments each goroutine was started with
    probed,     \* each goroutine's GetInstalledVersion result
    fetched,    \* each goroutine's GetLatestVersion result
    statuses,   \* the pre-allocated result slice
    writes,     \* per slot, the goroutines that have written it, in order
    result,     \* what the aggregator returned
    psResults,  \* the $results hashtable of Get-AllToolStatus
    ispec,      \* the InstallSpec (InstallMethods table) handed to the selector
    preferred,  \* the caller's preferred method, "" for none
    chosen,     \* what the selector returned
    host,       \* per tool, what running its version command yields now
    last,       \* the record of the last orchestrator call
    cmpA,       \* the installed version handed to the comparator
    cmpB,       \* the latest version handed to the comparator
    cmpOut,     \* what the comparator returned
    call,       \* the arguments of the helper function being called
    ret,        \* what that function returned
    running,    \* Spinner.running
    mu,         \* who holds Spinner.mu: "free", "caller" or "anim"
    spinCurrent, \* Spinner.current
    caller,     \* position of the goroutine that calls Start and Stop
    anim        \* position of the animation goroutine

hostVars == <<os, path, impl>>
aggVars == <<main, next, wg, pc, args, probed, fetched, statuses, writes, result, psResults>>
selVars == <<ispec, preferred, chosen>>
orchVars == <<host, last>>
cmpVars == <<cmpA, cmpB, cmpOut>>
fnVars == <<call, ret>>
spinVars == <<running, mu, spinCurrent, caller, anim>>
vars == <<hostVars, aggVars, selVars, orchVars, cmpVars, fnVars, spinVars>>

\* Number of tools in the loaded configuration (config.GetAllTools()).
NumTools == 2

Tools == 1..NumTools

NoStr == <<>>

-----------------------------------------------------------------------------
(* Version strings and the comparator                                      *)

V123 == <<"1", ".", "2", ".", "3">>
V130 == <<"1", ".", "3", ".", "0">>
V1100 == <<"1", ".", "1", "0", ".", "0">>
Vv123 == <<"v", "1", ".", "2", ".", "3">>
V12 == <<"1", ".", "2">>
V1234 == <<"1", ".", "2", ".", "3", ".", "4">>
Vbad == <<"x">>

DigitChars == {"0", "1", "2", "3", "4", "5", "6", "7", "8", "9"}

DigitVal(c) ==
    CASE c = "0" -> 0 [] c = "1" -> 1 [] c = "2" -> 2 [] c = "3" -> 3
      [] c = "4" -> 4 [] c = "5" -> 5 [] c = "6" -> 6 [] c = "7" -> 7
      [] c = "8" -> 8 [] c = "9" -> 9

\* strings.TrimPrefix(s, "v")
TrimPrefixV(s) == IF Len(s) >= 1 /\ s[1] = "v" THEN Tail(s) ELSE s

\* The characters version text is made of here
Chars == DigitChars \cup {".", "v", "x", "-", " "}

\* The dot-separated fields of s (strings.Split(s, "."), -split '\.').
SplitDotsOf[s \in Seq(Chars)] ==
    IF \E i \in 1..Len(s) : s[i] = "."
    THEN LET i == CHOOSE k \in 1..Len(s) :
                      s[k] = "." /\ \A j \in 1..(k - 1) : s[j] # "."
         IN  <<SubSeq(s, 1, i - 1)>> \o SplitDotsOf[SubSeq(s, i + 1, Len(s))]
    ELSE <<s>>

SplitDots(s) == SplitDotsOf[s]

IsDigits(g) == Len(g) >= 1 /\ \A i \in 1..Len(g) : g[i] \in DigitChars

\* strconv.ParseUint(g, 10, 64) of a digit string
ParseUintOf[g \in Seq(DigitChars)] ==
    IF Len(g) = 0 THEN 0
    ELSE ParseUintOf[SubSeq(g, 1, Len(g) - 1)] * 10 + DigitVal(g[Len(g)])

ParseUint(g) == ParseUintOf[g]

NewVersionLenient(s) ==
    LET t == TrimPrefixV(s)
        g == SplitDots(t)
        num(i) == IF i <= Len(g) /\ IsDigits(g[i]) THEN ParseUint(g[i]) ELSE 0
    IN  [ok |-> TRUE, major |-> num(1), minor |-> num(2), patch |-> num(3)]

\* semver.NewVersion on text over digits, ".", "v" and letters: an optional
\* "v", then one to three dot-separated numbers; minor and patch default to 0.
NewVersion(s) ==
    LET t == TrimPrefixV(s)
        g == SplitDots(t)
    IN  IF Len(g) \in 1..3 /\ \A i \in 1..Len(g) : IsDigits(g[i])
        THEN [ok |-> TRUE,
              major |-> ParseUint(g[1]),
              minor |-> IF Len(g) >= 2 THEN ParseUint(g[2]) ELSE 0,
              patch |-> IF Len(g) >= 3 THEN ParseUint(g[3]) ELSE 0]
        ELSE [ok |-> FALSE, major |-> 0, minor |-> 0, patch |-> 0]

\* (*Version).GreaterThan: a > b
GreaterThan(a, b) ==
    \/ a.major > b.major
    \/ a.major = b.major /\ a.minor > b.minor
    \/ a.major = b.major /\ a.minor = b.minor /\ a.patch > b.patch

CompareVersionsNoErrCheck(installed, latest) ==
    LET i == NewVersion(TrimPrefixV(installed))
        l == NewVersion(TrimPrefixV(latest))
    IN  [hasUpdate |-> ~(i.ok /\ l.ok) \/ GreaterThan(l, i),
         err |-> ~(i.ok /\ l.ok)]

\* Manager.CompareVersions
CompareVersions(installed, latest) ==
    LET i == NewVersion(TrimPrefixV(installed))
        l == NewVersion(TrimPrefixV(latest))
    IN  IF ~i.ok THEN [hasUpdate |-> FALSE, err |-> TRUE]
        ELSE IF ~l.ok THEN [hasUpdate |-> FALSE, err |-> TRUE]
        ELSE [hasUpdate |-> GreaterThan(l, i), err |-> FALSE]

-----------------------------------------------------------------------------
(* Platform and package managers                                           *)

OSes == {"windows", "darwin", "linux", "unknown"}

IsWindows(o) == o = "windows"
IsDarwin(o) == o = "darwin"
IsLinux(o) == o = "linux"

Executables == {"winget", "brew", "apt", "pacman", "npm", "pip", "pip3"}

\* What the PowerShell script looks for; "wsl" stands for wsl --status
\* exiting with 0.
PSExecutables == {"winget", "npm", "pip", "scoop", "wsl"}

\* exec.LookPath(name) succeeds
commandExists(p, name) == name \in p

\* PackageManager.IsAvailable of the manager named m, on OS o with the
\* executables p on the search path
IsAvailable(o, p, m) ==
    CASE m = "winget" -> IsWindows(o) /\ commandExists(p, "winget")
      [] m = "brew" -> (IsDarwin(o) \/ IsLinux(o)) /\ commandExists(p, "brew")
      [] m = "apt" -> IsLinux(o) /\ commandExists(p, "apt")
      [] m = "pacman" -> IsLinux(o) /\ commandExists(p, "pacman")
      [] m = "npm" -> commandExists(p, "npm")
      [] m = "pip" -> commandExists(p, "pip") \/ commandExists(p, "pip3")
      [] OTHER -> FALSE

\* The fields of config.InstallSpec
Methods == {"winget", "npm", "brew", "apt", "pacman", "pip", "script"}

NoMethod == "none"

\* An InstallSpec is the set of its non-empty fields; the command of field m
\* is the text configured for m, identified here by m itself.
NoSpec == [ok |-> FALSE, fields |-> {}]
SpecOf(fs) == [ok |-> TRUE, fields |-> fs]

Has(spec, m) == m \in spec.fields

GetBestPipFirst(o, p, spec) ==
    IF ~spec.ok THEN NoMethod
    ELSE IF IsWindows(o) /\ Has(spec, "winget") /\ IsAvailable(o, p, "winget") THEN "winget"
    ELSE IF IsDarwin(o) /\ Has(spec, "brew") /\ IsAvailable(o, p, "brew") THEN "brew"
    ELSE IF IsLinux(o) /\ Has(spec, "apt") /\ IsAvailable(o, p, "apt") THEN "apt"
    ELSE IF IsLinux(o) /\ Has(spec, "brew") /\ IsAvailable(o, p, "brew") THEN "brew"
    ELSE IF IsLinux(o) /\ Has(spec, "pacman") /\ IsAvailable(o, p, "pacman") THEN "pacman"
    ELSE IF Has(spec, "pip") /\ IsAvailable(o, p, "pip") THEN "pip"
    ELSE IF Has(spec, "npm") /\ IsAvailable(o, p, "npm") THEN "npm"
    ELSE IF Has(spec, "script") THEN "script"
    ELSE NoMethod

GetBestNpmUnchecked(o, p, spec) ==
    IF ~spec.ok THEN NoMethod
    ELSE IF IsWindows(o) /\ Has(spec, "winget") /\ IsAvailable(o, p, "winget") THEN "winget"
    ELSE IF IsDarwin(o) /\ Has(spec, "brew") /\ IsAvailable(o, p, "brew") THEN "brew"
    ELSE IF IsLinux(o) /\ Has(spec, "apt") /\ IsAvailable(o, p, "apt") THEN "apt"
    ELSE IF IsLinux(o) /\ Has(spec, "brew") /\ IsAvailable(o, p, "brew") THEN "brew"
    ELSE IF IsLinux(o) /\ Has(spec, "pacman") /\ IsAvailable(o, p, "pacman") THEN "pacman"
    ELSE IF Has(spec, "npm") THEN "npm"
    ELSE IF Has(spec, "pip") /\ IsAvailable(o, p, "pip") THEN "pip"
    ELSE IF Has(spec, "script") THEN "script"
    ELSE NoMethod

\* Manager.GetBestInstallMethod: the method returned (its command is the
\* field of that name), NoMethod for ("", "")
GetBestInstallMethod(o, p, spec) ==
    IF ~spec.ok THEN NoMethod
    ELSE IF IsWindows(o) /\ Has(spec, "winget") /\ IsAvailable(o, p, "winget") THEN "winget"
    ELSE IF IsDarwin(o) /\ Has(spec, "brew") /\ IsAvailable(o, p, "brew") THEN "brew"
    ELSE IF IsLinux(o) /\ Has(spec, "apt") /\ IsAvailable(o, p, "apt") THEN "apt"
    ELSE IF IsLinux(o) /\ Has(spec, "brew") /\ IsAvailable(o, p, "brew") THEN "brew"
    ELSE IF IsLinux(o) /\ Has(spec, "pacman") /\ IsAvailable(o, p, "pacman") THEN "pacman"
    ELSE IF Has(spec, "npm") /\ IsAvailable(o, p, "npm") THEN "npm"
    ELSE IF Has(spec, "pip") /\ IsAvailable(o, p, "pip") THEN "pip"
    ELSE IF Has(spec, "script") THEN "script"
    ELSE NoMethod

\* Manager.GetAvailableInstallMethods, in the order appended
GetAvailableInstallMethods(o, p, spec) ==
    IF ~spec.ok THEN <<>>
    ELSE (IF Has(spec, "winget") /\ IsWindows(o) /\ IsAvailable(o, p, "winget")
          THEN <<"winget">> ELSE <<>>)
      \o (IF Has(spec, "brew") /\ IsAvailable(o, p, "brew") THEN <<"brew">> ELSE <<>>)
      \o (IF Has(spec, "apt") /\ IsAvailable(o, p, "apt") THEN <<"apt">> ELSE <<>>)
      \o (IF Has(spec, "pacman") /\ IsAvailable(o, p, "pacman") THEN <<"pacman">> ELSE <<>>)
      \o (IF Has(spec, "npm") /\ IsAvailable(o, p, "npm") THEN <<"npm">> ELSE <<>>)
      \o (IF Has(spec, "pip") /\ IsAvailable(o, p, "pip") THEN <<"pip">> ELSE <<>>)
      \o (IF Has(spec, "script") THEN <<"script">> ELSE <<>>)

-----------------------------------------------------------------------------
(* PowerShell: Get-BestInstallMethod                                       *)

\* The keys an InstallMethods table can have
PSMethods == {"WinGet", "npm", "pip", "Native", "WSL", "Scoop"}

\* Test-CommandExists
TestCommandExists(p, c) == c \in p

\* Test-WSLInstalled
TestWSLInstalled(p) == "wsl" \in p

\* The switch over $Preferred: the preferred method is returned
PSPreferredUsable(p, m) ==
    CASE m = "WinGet" -> TestCommandExists(p, "winget")
      [] m = "npm" -> TestCommandExists(p, "npm")
      [] m = "pip" -> TestCommandExists(p, "pip")
      [] m = "Native" -> TRUE
      [] m = "WSL" -> TestWSLInstalled(p)
      [] OTHER -> FALSE

\* The switch over $method in the foreach: the method is returned
PSFallbackUsable(p, m) ==
    CASE m = "WinGet" -> TestCommandExists(p, "winget")
      [] m = "npm" -> TestCommandExists(p, "npm")
      [] m = "pip" -> TestCommandExists(p, "pip")
      [] m = "Scoop" -> TestCommandExists(p, "scoop")
      [] m = "Native" -> TRUE
      [] m = "WSL" -> TestWSLInstalled(p)
      [] OTHER -> FALSE

\* $fallbackOrder
PSFallbackOrder == <<"WinGet", "npm", "pip", "Native", "WSL", "Scoop">>

\* The foreach over $fallbackOrder, from position i on
RECURSIVE PSFallbackFrom(_, _, _)
PSFallbackFrom(p, methods, i) ==
    IF i > Len(PSFallbackOrder) THEN NoMethod
    ELSE IF PSFallbackOrder[i] \in methods /\ PSFallbackUsable(p, PSFallbackOrder[i])
         THEN PSFallbackOrder[i]
    ELSE PSFallbackFrom(p, methods, i + 1)

\* Get-BestInstallMethod; NoMethod for $null
PSGetBestInstallMethod(p, methods, pref) ==
    IF pref \in methods /\ PSPreferredUsable(p, pref) THEN pref
    ELSE PSFallbackFrom(p, methods, 1)

-----------------------------------------------------------------------------
(* The configured tools                                                    *)

\* Sample definitions standing for the loaded tools.yaml; tool k of the
\* configuration is sample ((k - 1) % 3) + 1.
SampleInstall(k, o) ==
    CASE k = 1 /\ o = "windows" -> SpecOf({"winget", "npm", "pip"})
      [] k = 1 /\ o = "darwin" -> SpecOf({"brew", "npm"})
      [] k = 1 /\ o = "linux" -> SpecOf({"apt", "pacman", "npm", "pip"})
      [] k = 2 /\ o = "windows" -> SpecOf({"npm", "pip"})
      [] k = 2 /\ o = "darwin" -> SpecOf({"pip", "script"})
      [] k = 2 /\ o = "linux" -> SpecOf({"brew", "pip"})
      [] k = 3 /\ o = "windows" -> SpecOf({})
      [] k = 3 /\ o = "linux" -> SpecOf({"script"})
      [] OTHER -> NoSpec

SampleOf(t) == ((t - 1) % 3) + 1

\* tool.Install[osKey]
ToolInstall(t, o) == SampleInstall(SampleOf(t), o)

\* tool.VersionCmd != ""
HasVersionCmd(t) == SampleOf(t) # 3

-----------------------------------------------------------------------------
(* Installed-version probe, version resolver, status of one tool           *)

Nil == [nil |-> TRUE]

Failed == [ver |-> NoStr, err |-> TRUE]
Got(v) == [ver |-> v, err |-> FALSE]

\* What running a tool's version command can yield: cmd.Run() fails, or it
\* succeeds and ExtractVersion finds v in the output (NoStr: no match).
RunFails == [ok |-> FALSE, ver |-> NoStr]
RunYields(v) == [ok |-> TRUE, ver |-> v]
\* The shell finds no such executable on the search path and exits non-zero
RunNotFound == [ok |-> FALSE, ver |-> NoStr, notFound |-> TRUE]

\* Manager.GetInstalledVersion
GetInstalledVersion(t, run) ==
    IF ~HasVersionCmd(t) THEN Failed
    ELSE IF ~run.ok THEN Failed
    ELSE IF run.ver = NoStr THEN Failed
    ELSE Got(run.ver)

\* The version source types GetLatestVersion dispatches on, and one it
\* does not know
KnownSourceTypes == {"npm", "github", "pypi", "vscode-update", "cursor-todesktop"}
SourceTypes == KnownSourceTypes \cup {"homebrew"}

\* fmt.Errorf("unknown version source type: %s", ...)
UnknownSourceType == [ver |-> NoStr, err |-> TRUE, unknownType |-> TRUE]

\* GetLatestVersion; resp is what the lookup of a known source returns
GetLatestVersion(src, resp) ==
    IF src \in KnownSourceTypes THEN resp ELSE UnknownSourceType

GetToolStatusUpdateWhenMissing(t, o, p, run, fetch) ==
    LET inst == GetInstalledVersion(t, run)
        isInstalled == ~inst.err /\ inst.ver # NoStr
        gotLatest == ~fetch.err /\ fetch.ver # NoStr
    IN  [Tool |-> t,
         IsInstalled |-> isInstalled,
         InstalledVer |-> IF isInstalled THEN inst.ver ELSE NoStr,
         LatestVer |-> IF gotLatest THEN fetch.ver ELSE NoStr,
         HasUpdate |-> IF gotLatest
                       THEN ~isInstalled \/ CompareVersions(inst.ver, fetch.ver).hasUpdate
                       ELSE FALSE,
         InstallMethods |-> GetAvailableInstallMethods(o, p, ToolInstall(t, o))]

GetToolStatusFetchFatal(t, o, p, run, fetch) ==
    LET inst == GetInstalledVersion(t, run)
        isInstalled == ~inst.err /\ inst.ver # NoStr /\ ~fetch.err
        gotLatest == ~fetch.err /\ fetch.ver # NoStr
    IN  [Tool |-> t,
         IsInstalled |-> isInstalled,
         InstalledVer |-> IF isInstalled THEN inst.ver ELSE NoStr,
         LatestVer |-> IF gotLatest THEN fetch.ver ELSE NoStr,
         HasUpdate |-> IF gotLatest /\ isInstalled
                       THEN CompareVersions(inst.ver, fetch.ver).hasUpdate
                       ELSE FALSE,
         InstallMethods |-> GetAvailableInstallMethods(o, p, ToolInstall(t, o))]

\* Manager.GetToolStatus, given what the version command and the remote
\* lookup yield
GetToolStatus(t, o, p, run, fetch) ==
    LET inst == GetInstalledVersion(t, run)
        isInstalled == ~inst.err /\ inst.ver # NoStr
        gotLatest == ~fetch.err /\ fetch.ver # NoStr
    IN  [Tool |-> t,
         IsInstalled |-> isInstalled,
         InstalledVer |-> IF isInstalled THEN inst.ver ELSE NoStr,
         LatestVer |-> IF gotLatest THEN fetch.ver ELSE NoStr,
         HasUpdate |-> IF gotLatest /\ isInstalled
                       THEN CompareVersions(inst.ver, fetch.ver).hasUpdate
                       ELSE FALSE,
         InstallMethods |-> GetAvailableInstallMethods(o, p, ToolInstall(t, o))]

-----------------------------------------------------------------------------
(* PowerShell: Compare-Version and the status of one tool                  *)

\* [int]$_ of one dot-separated field: "" casts to 0, digits to their value,
\* anything else throws.
PSIntOk(g) == Len(g) = 0 \/ IsDigits(g)

\* Compare-Version: kind "null", kind "hang" (the padding loop never ends: a
\* one-field version is a scalar, and += 0 on a scalar adds instead of
\* appending), or kind "int" with val -1, 0 or 1.
RECURSIVE PSCompareFrom(_, _, _)
PSCompareFrom(a, b, i) ==
    LET x == IF i <= Len(a) THEN ParseUint(a[i]) ELSE 0
        y == IF i <= Len(b) THEN ParseUint(b[i]) ELSE 0
    IN  IF i > Len(a) /\ i > Len(b) THEN 0
        ELSE IF x < y THEN -1
        ELSE IF x > y THEN 1
        ELSE PSCompareFrom(a, b, i + 1)

PSNull == [kind |-> "null", val |-> 0]

PSCompareVersion(installed, latest) ==
    IF installed = NoStr \/ latest = NoStr THEN PSNull
    ELSE LET a == SplitDots(installed)
             b == SplitDots(latest)
         IN  IF ~(\A i \in 1..Len(a) : PSIntOk(a[i])) THEN PSNull
             ELSE IF ~(\A i \in 1..Len(b) : PSIntOk(b[i])) THEN PSNull
             ELSE IF (Len(a) = 1 /\ Len(b) > 1) \/ (Len(b) = 1 /\ Len(a) > 1)
                  THEN [kind |-> "hang", val |-> 0]
             ELSE [kind |-> "int", val |-> PSCompareFrom(a, b, 1)]

\* $tool.RequiresWSL of the PowerShell tool definitions
PSRequiresWSL(t) == SampleOf(t) = 2

\* One iteration of the foreach in Get-AllToolStatus; installed and latest
\* are what Get-InstalledVersion and Get-LatestVersion return (NoStr: $null).
PSToolStatus(t, wslInstalled, installed, latest) ==
    LET cmp == PSCompareVersion(installed, latest)
    IN  IF PSRequiresWSL(t) /\ ~wslInstalled
        THEN [Key |-> t, InstalledVersion |-> NoStr, LatestVersion |-> NoStr,
              Status |-> "WSL_REQUIRED"]
        ELSE [Key |-> t, InstalledVersion |-> installed, LatestVersion |-> latest,
              Status |-> IF installed # NoStr
                         THEN IF cmp.kind = "null" \/ latest = NoStr THEN "OK"
                              ELSE IF cmp.val < 0 THEN "UPDATE"
                              ELSE "OK"
                         ELSE "MISS"]

\* Get-AllToolStatus cannot finish this iteration
PSStatusHangs(t, wslInstalled, installed, latest) ==
    /\ ~(PSRequiresWSL(t) /\ ~wslInstalled)
    /\ installed # NoStr
    /\ PSCompareVersion(installed, latest).kind = "hang"

-----------------------------------------------------------------------------
(* The status aggregator                                                   *)

\* What the hosts of the aggregator runs look like
HostPool ==
    {<<"windows", {"winget", "npm"}>>, <<"windows", {"npm", "wsl"}>>,
     <<"linux", {"apt", "pip3"}>>}

RunPool == {RunNotFound, RunFails, RunYields(V123), RunYields(V130), RunYields(Vbad)}
FetchPool == {Failed, Got(NoStr), Got(Vv123), Got(V1100), Got(Vbad)}
PSVersionPool == {NoStr, V123, V130, V12, Vbad}

\* Nothing has been selected, nothing has been installed or updated
SelIdle == ispec = NoSpec /\ preferred = "" /\ chosen = Nil
OrchIdle == host = [t \in Tools |-> RunFails] /\ last = Nil
CmpIdle == cmpA = NoStr /\ cmpB = NoStr /\ cmpOut = Nil
FnIdle == call = Nil /\ ret = Nil
SpinIdle ==
    /\ running = FALSE /\ mu = "free" /\ spinCurrent = 0
    /\ caller = "idle" /\ anim = "none"

AggInit ==
    /\ \E h \in HostPool : os = h[1] /\ path = h[2]
    /\ impl \in {"go", "ps"}
    /\ SelIdle /\ OrchIdle /\ CmpIdle /\ FnIdle /\ SpinIdle
    /\ main = "spawn"
    /\ next = 1
    /\ wg = 0
    /\ pc = [t \in Tools |-> "idle"]
    /\ args = [t \in Tools |-> Nil]
    /\ probed = [t \in Tools |-> Nil]
    /\ fetched = [t \in Tools |-> Nil]
    /\ statuses = [i \in Tools |-> Nil]
    /\ writes = [i \in Tools |-> <<>>]
    /\ result = Nil
    /\ psResults = <<>>

SpawnArgsShared(i) == [idx |-> 1, t |-> i]

\* go func(idx int, t config.ToolDefinition) {...}(i, tool)
SpawnArgs(i) == [idx |-> i, t |-> i]

\* One iteration of the for loop: wg.Add(1); go func...
Spawn ==
    /\ impl = "go" /\ main = "spawn"
    /\ wg' = wg + 1
    /\ args' = [args EXCEPT ![next] = SpawnArgs(next)]
    /\ pc' = [pc EXCEPT ![next] = "probe"]
    /\ next' = next + 1
    /\ main' = IF next = NumTools THEN "wait" ELSE "spawn"
    /\ UNCHANGED <<hostVars, cmpVars, fnVars, spinVars, selVars, orchVars, probed, fetched, statuses, writes, result, psResults>>

\* GetToolStatus, first part: m.GetInstalledVersion(tool) returns
TaskProbe(g) ==
    /\ pc[g] = "probe"
    /\ \E run \in RunPool : probed' = [probed EXCEPT ![g] = run]
    /\ pc' = [pc EXCEPT ![g] = "fetch"]
    /\ UNCHANGED <<hostVars, cmpVars, fnVars, spinVars, selVars, orchVars, main, next, wg, args, fetched, statuses, writes, result, psResults>>

\* GetToolStatus, second part: GetLatestVersion(tool) returns (with a
\* version, with an error, or with the client's timeout error); src is the
\* tool's VersionSource.Type
TaskFetch(g) ==
    /\ pc[g] = "fetch"
    /\ \E src \in SourceTypes, f \in FetchPool :
          fetched' = [fetched EXCEPT ![g] = GetLatestVersion(src, f)]
    /\ pc' = [pc EXCEPT ![g] = "store"]
    /\ UNCHANGED <<hostVars, cmpVars, fnVars, spinVars, selVars, orchVars, main, next, wg, args, probed, statuses, writes, result, psResults>>

TaskStoreUnlessFetchFailed(g) ==
    /\ pc[g] = "store"
    /\ statuses' = IF fetched[g].err THEN statuses
                   ELSE [statuses EXCEPT ![args[g].idx] =
                        GetToolStatus(args[g].t, os, path, probed[g], fetched[g])]
    /\ writes' = IF fetched[g].err THEN writes
                 ELSE [writes EXCEPT ![args[g].idx] = Append(@, g)]
    /\ pc' = [pc EXCEPT ![g] = "exit"]
    /\ UNCHANGED <<hostVars, cmpVars, fnVars, spinVars, selVars, orchVars, main, next, wg, args, probed, fetched, result, psResults>>

\* statuses[idx] = m.GetToolStatus(&t)
TaskStore(g) ==
    /\ pc[g] = "store"
    /\ statuses' = [statuses EXCEPT ![args[g].idx] =
                        GetToolStatus(args[g].t, os, path, probed[g], fetched[g])]
    /\ writes' = [writes EXCEPT ![args[g].idx] = Append(@, g)]
    /\ pc' = [pc EXCEPT ![g] = "exit"]
    /\ UNCHANGED <<hostVars, cmpVars, fnVars, spinVars, selVars, orchVars, main, next, wg, args, probed, fetched, result, psResults>>

\* defer wg.Done()
TaskExit(g) ==
    /\ pc[g] = "exit"
    /\ wg' = wg - 1
    /\ pc' = [pc EXCEPT ![g] = "done"]
    /\ UNCHANGED <<hostVars, cmpVars, fnVars, spinVars, selVars, orchVars, main, next, args, probed, fetched, statuses, writes, result, psResults>>

WaitReturnsEarly ==
    /\ impl = "go" /\ main = "wait"
    /\ main' = "returned"
    /\ result' = statuses
    /\ UNCHANGED <<hostVars, cmpVars, fnVars, spinVars, selVars, orchVars, next, wg, pc, args, probed, fetched, statuses, writes, psResults>>

\* wg.Wait(); return statuses
WaitReturn ==
    /\ impl = "go" /\ main = "wait"
    /\ wg = 0
    /\ main' = "returned"
    /\ result' = statuses
    /\ UNCHANGED <<hostVars, cmpVars, fnVars, spinVars, selVars, orchVars, next, wg, pc, args, probed, fetched, statuses, writes, psResults>>

\* Get-AllToolStatus: one iteration of the foreach over the tool keys
PSStatusStep ==
    /\ impl = "ps" /\ main = "spawn"
    /\ \E iv \in PSVersionPool, lv \in PSVersionPool :
          /\ ~PSStatusHangs(next, TestWSLInstalled(path), iv, lv)
          /\ psResults' = Append(psResults,
                                 PSToolStatus(next, TestWSLInstalled(path), iv, lv))
    /\ next' = next + 1
    /\ main' = IF next = NumTools THEN "wait" ELSE "spawn"
    /\ UNCHANGED <<hostVars, cmpVars, fnVars, spinVars, selVars, orchVars, wg, pc, args, probed, fetched, statuses, writes, result>>

\* Get-AllToolStatus: return $results
PSStatusReturn ==
    /\ impl = "ps" /\ main = "wait"
    /\ main' = "returned"
    /\ UNCHANGED <<hostVars, cmpVars, fnVars, spinVars, selVars, orchVars, next, wg, pc, args, probed, fetched, statuses, writes, result, psResults>>

AggNext ==
    \/ Spawn
    \/ \E g \in Tools : TaskProbe(g)
    \/ \E g \in Tools : TaskFetch(g)
    \/ \E g \in Tools : TaskStore(g)
    \/ \E g \in Tools : TaskExit(g)
    \/ WaitReturn
    \/ PSStatusStep
    \/ PSStatusReturn

SpecAgg == AggInit /\ [][AggNext]_vars

\* Goroutines are scheduled, the version commands exit and the HTTP client
\* answers or times out; only the remote lookup of the first tool is left
\* free to stall for ever.
FairSpecAgg ==
    /\ SpecAgg
    /\ WF_vars(Spawn)
    /\ \A g \in Tools : WF_vars(TaskProbe(g)) /\ WF_vars(TaskStore(g)) /\ WF_vars(TaskExit(g))
    /\ \A g \in Tools \ {1} : WF_vars(TaskFetch(g))
    /\ WF_vars(WaitReturn)

-----------------------------------------------------------------------------
(* Selecting an install method                                             *)

\* The aggregator is not running
AggIdle ==
    /\ main = "spawn" /\ next = 1 /\ wg = 0
    /\ pc = [t \in Tools |-> "idle"]
    /\ args = [t \in Tools |-> Nil]
    /\ probed = [t \in Tools |-> Nil]
    /\ fetched = [t \in Tools |-> Nil]
    /\ statuses = [i \in Tools |-> Nil]
    /\ writes = [i \in Tools |-> <<>>]
    /\ result = Nil
    /\ psResults = <<>>

\* Any host, any InstallSpec: tool.Install[osKey] absent, or any subset of
\* its fields non-empty
SelInit ==
    /\ AggIdle /\ OrchIdle /\ CmpIdle /\ FnIdle /\ SpinIdle
    /\ chosen = Nil
    /\ \/ /\ impl = "go"
          /\ os \in OSes
          /\ path \in SUBSET Executables
          /\ ispec \in {NoSpec} \cup {SpecOf(fs) : fs \in SUBSET Methods}
          /\ preferred = ""
       \/ /\ impl = "ps"
          /\ os = "windows"
          /\ path \in SUBSET PSExecutables
          /\ ispec \in {SpecOf(fs) : fs \in SUBSET PSMethods}
          /\ preferred \in {""} \cup PSMethods

\* method, command := m.GetBestInstallMethod(tool)
SelectGo ==
    /\ impl = "go" /\ chosen = Nil
    /\ chosen' = [method |-> GetBestInstallMethod(os, path, ispec)]
    /\ UNCHANGED <<hostVars, cmpVars, fnVars, spinVars, aggVars, orchVars, ispec, preferred>>

\* $method = Get-BestInstallMethod -Tool $tool -Preferred $PreferredMethod
SelectPS ==
    /\ impl = "ps" /\ chosen = Nil
    /\ chosen' = [method |-> PSGetBestInstallMethod(path, ispec.fields, preferred)]
    /\ UNCHANGED <<hostVars, cmpVars, fnVars, spinVars, aggVars, orchVars, ispec, preferred>>

SelNext == SelectGo \/ SelectPS

SpecSelect == SelInit /\ [][SelNext]_vars

-----------------------------------------------------------------------------
(* The install and update orchestrators                                    *)

\* What the version command of a tool can yield on a host
OrchRunPool == {RunFails, RunYields(V123), RunYields(V130), RunYields(V1234)}

\* The latest version the remote source of a tool publishes
LatestPool == {V123, V130, V1234}

\* How a shell command ends: exit status 0, another exit status, or (in
\* PowerShell) a terminating error that reaches the catch block
ExitCodes == {"ok", "fail"}
PSExitCodes == {"ok", "fail", "throws"}

\* The value of the --method flag / -PreferredMethod parameter
GoPreferredPool == {"", "winget", "npm", "pip", "apt", "pacman"}
PSPreferredPool == {"WinGet", "npm", "pip", "Native"}

\* InstallMethods, UpdateCmd and Prerequisites of the PowerShell tool
\* definitions
PSInstallMethods(t) ==
    CASE SampleOf(t) = 1 -> {"WinGet", "npm"}
      [] SampleOf(t) = 2 -> {"WSL"}
      [] OTHER -> {"Native", "pip"}

PSHasUpdateCmd(t) == SampleOf(t) # 3

\* One external command that was run
Cmd(m, k, e) == [method |-> m, kind |-> k, exit |-> e]

\* The return paths of the Go manager functions that assign the Error field
\* of the InstallResult / UpdateResult they return, by the note of the path
ErrorSet(note) ==
    note \in {"no method", "installation failed", "tool not found",
              "no uninstall method", "no uninstall command", "uninstall failed",
              "not installed", "update failed", "could not verify"}

\* The outcome of an orchestrator for one tool: InstallResult / UpdateResult
\* (the boolean of the PowerShell functions), the commands it ran, the
\* latest version published at the time, whether the path recovery found
\* the tool, and (for the updaters) the steps the call went through
Res(success, upToDate, ranCmds, note) ==
    [Success |-> success, WasUpToDate |-> upToDate, ran |-> ranCmds,
     note |-> note, remote |-> NoStr, fetch |-> Failed, accessible |-> FALSE,
     steps |-> <<>>, Error |-> ErrorSet(note)]

\* Result r of a call that went through the steps st
Stepped(r, st) == [r EXCEPT !.steps = st]

InstallWithMethodUnverified(t, method, e, after) ==
    IF e # "ok" THEN Res(FALSE, FALSE, <<Cmd(method, "install", e)>>, "installation failed")
    ELSE IF GetInstalledVersion(t, after).err
         THEN Res(TRUE, FALSE, <<Cmd(method, "install", e)>>, "tool not found")
    ELSE Res(TRUE, FALSE, <<Cmd(method, "install", e)>>, "installed")

\* Manager.InstallWithMethod; e is how the command ends and after what the
\* version command yields afterwards
InstallWithMethod(t, method, e, after) ==
    IF e # "ok" THEN Res(FALSE, FALSE, <<Cmd(method, "install", e)>>, "installation failed")
    ELSE IF GetInstalledVersion(t, after).err
         THEN Res(FALSE, FALSE, <<Cmd(method, "install", e)>>, "tool not found")
    ELSE Res(TRUE, FALSE, <<Cmd(method, "install", e)>>, "installed")

\* Manager.Install
Install(t, o, p, before, e, after) ==
    IF GetBestInstallMethod(o, p, ToolInstall(t, o)) = NoMethod
    THEN Res(FALSE, FALSE, <<>>, "no method")
    ELSE InstallWithMethod(t, GetBestInstallMethod(o, p, ToolInstall(t, o)), e, after)

\* The switch over the requested method in runInstall and InstallAll: the
\* command of that field, "" for a method the switch does not know
SwitchCommand(spec, pref) ==
    IF pref \in {"winget", "brew", "npm", "pip", "apt"} /\ Has(spec, pref)
    THEN pref ELSE ""

\* runInstall for one tool key
RunInstallOne(t, o, p, pref, before, e, after) ==
    IF ~GetInstalledVersion(t, before).err
    THEN Res(TRUE, FALSE, <<>>, "already installed")
    ELSE IF pref # ""
    THEN IF GetBestInstallMethod(o, p, ToolInstall(t, o)) = NoMethod
         THEN Res(FALSE, FALSE, <<>>, "no method")
         ELSE IF ~ToolInstall(t, o).ok
         THEN Res(FALSE, FALSE, <<>>, "method not available")
         ELSE IF SwitchCommand(ToolInstall(t, o), pref) = ""
         THEN Res(FALSE, FALSE, <<>>, "method not available")
         ELSE InstallWithMethod(t, pref, e, after)
    ELSE Install(t, o, p, before, e, after)

\* One iteration of the loop of Manager.InstallAll
InstallAllOne(t, o, p, pref, before, e, after) ==
    IF ~GetInstalledVersion(t, before).err
    THEN Res(TRUE, FALSE, <<>>, "already installed")
    ELSE IF pref # "" /\ ToolInstall(t, o).ok
            /\ SwitchCommand(ToolInstall(t, o), pref) # ""
    THEN InstallWithMethod(t, pref, e, after)
    ELSE Install(t, o, p, before, e, after)

UpdateFetchesFirst(t, o, p, before, fetch, e, after) ==
    LET current == GetInstalledVersion(t, before)
        cmp == CompareVersions(current.ver, fetch.ver)
        method == GetBestInstallMethod(o, p, ToolInstall(t, o))
        kind == IF IsWindows(o) /\ method = "winget" THEN "upgrade" ELSE "install"
        new == GetInstalledVersion(t, after)
        ranCmd == <<Cmd(method, kind, e)>>
    IN  IF current.err
        THEN Stepped(Res(FALSE, FALSE, <<>>, "not installed"), <<"fetch", "probe">>)
        ELSE IF ~fetch.err /\ ~cmp.err /\ ~cmp.hasUpdate
        THEN Stepped(Res(TRUE, TRUE, <<>>, "already up to date"), <<"fetch", "probe">>)
        ELSE IF method = NoMethod
        THEN Stepped(Res(FALSE, FALSE, <<>>, "no method"), <<"fetch", "probe", "select">>)
        ELSE IF e # "ok"
        THEN Stepped(Res(FALSE, FALSE, ranCmd, "update failed"),
                     <<"fetch", "probe", "select", "run">>)
        ELSE IF new.err
        THEN Stepped(Res(FALSE, FALSE, ranCmd, "could not verify"),
                     <<"fetch", "probe", "select", "run", "probe">>)
        ELSE Stepped(Res(TRUE, current.ver = new.ver, ranCmd, "updated"),
                     <<"fetch", "probe", "select", "run", "probe">>)

UpdateStopsWhenFetchFails(t, o, p, before, fetch, e, after) ==
    IF ~GetInstalledVersion(t, before).err /\ fetch.err
    THEN Stepped(Res(TRUE, TRUE, <<>>, "already up to date"), <<"probe", "fetch">>)
    ELSE UpdateFetchesFirst(t, o, p, before, fetch, e, after)

\* Manager.Update; fetch is what GetLatestVersion returns. The steps are
\* the probe, the lookup of the latest version, the method selection, the
\* command and the second probe.
Update(t, o, p, before, fetch, e, after) ==
    LET current == GetInstalledVersion(t, before)
        cmp == CompareVersions(current.ver, fetch.ver)
        method == GetBestInstallMethod(o, p, ToolInstall(t, o))
        kind == IF IsWindows(o) /\ method = "winget" THEN "upgrade" ELSE "install"
        new == GetInstalledVersion(t, after)
        ranCmd == <<Cmd(method, kind, e)>>
    IN  IF current.err
        THEN Stepped(Res(FALSE, FALSE, <<>>, "not installed"), <<"probe">>)
        ELSE IF ~fetch.err /\ ~cmp.err /\ ~cmp.hasUpdate
        THEN Stepped(Res(TRUE, TRUE, <<>>, "already up to date"), <<"probe", "fetch">>)
        ELSE IF method = NoMethod
        THEN Stepped(Res(FALSE, FALSE, <<>>, "no method"), <<"probe", "fetch", "select">>)
        ELSE IF e # "ok"
        THEN Stepped(Res(FALSE, FALSE, ranCmd, "update failed"),
                     <<"probe", "fetch", "select", "run">>)
        ELSE IF new.err
        THEN Stepped(Res(FALSE, FALSE, ranCmd, "could not verify"),
                     <<"probe", "fetch", "select", "run", "probe">>)
        ELSE Stepped(Res(TRUE, current.ver = new.ver, ranCmd, "updated"),
                     <<"probe", "fetch", "select", "run", "probe">>)

\* Get-InstalledVersion; NoStr for $null
PSGetInstalledVersion(t, p, run) ==
    IF PSRequiresWSL(t) /\ ~TestWSLInstalled(p) THEN NoStr
    ELSE IF run.ok THEN run.ver
    ELSE NoStr

\* Install-CodingTool; prereq is what Test-Prerequisites returns and acc
\* the Accessible field of Ensure-ToolInPath -AutoFix
InstallCodingTool(t, p, pref, force, prereq, before, e, after, acc) ==
    LET method == PSGetBestInstallMethod(p, PSInstallMethods(t), pref)
        ranCmd == <<Cmd(method, "install", e)>>
    IN  IF PSRequiresWSL(t) /\ ~TestWSLInstalled(p) THEN Res(FALSE, FALSE, <<>>, "requires WSL")
        ELSE IF ~prereq THEN Res(FALSE, FALSE, <<>>, "prerequisites")
        ELSE IF PSGetInstalledVersion(t, p, before) # NoStr /\ ~force
        THEN Res(TRUE, FALSE, <<>>, "already installed")
        ELSE IF method = NoMethod THEN Res(FALSE, FALSE, <<>>, "no method")
        ELSE IF e = "throws" THEN Res(FALSE, FALSE, ranCmd, "installation failed")
        ELSE IF PSGetInstalledVersion(t, p, after) # NoStr THEN Res(TRUE, FALSE, ranCmd, "installed")
        ELSE IF ~PSRequiresWSL(t) /\ acc
             THEN [Res(TRUE, FALSE, ranCmd, "now available") EXCEPT !.accessible = TRUE]
        ELSE Res(TRUE, FALSE, ranCmd, "not accessible")

\* Update-CodingTool
UpdateCodingTool(t, p, before, e, after) ==
    LET installed == PSGetInstalledVersion(t, p, before)
        new == PSGetInstalledVersion(t, p, after)
        ranCmd == <<Cmd("UpdateCmd", "upgrade", e)>>
    IN  IF installed = NoStr
        THEN Stepped(Res(FALSE, FALSE, <<>>, "not installed"), <<"probe">>)
        ELSE IF ~PSHasUpdateCmd(t)
        THEN Stepped(Res(FALSE, FALSE, <<>>, "no update command"), <<"probe">>)
        ELSE IF e = "throws"
        THEN Stepped(Res(FALSE, FALSE, ranCmd, "update failed"), <<"probe", "run">>)
        ELSE Stepped(Res(TRUE, new # NoStr /\ new = installed, ranCmd, "updated"),
                     <<"probe", "run", "probe">>)

\* tool.Uninstall[osKey] of the sample tools
SampleUninstall(k, o) ==
    CASE k = 1 /\ o = "windows" -> SpecOf({"winget", "npm"})
      [] k = 1 /\ o = "darwin" -> SpecOf({"brew", "npm"})
      [] k = 1 /\ o = "linux" -> SpecOf({"npm", "pip"})
      [] k = 2 /\ o = "windows" -> SpecOf({"npm", "pip"})
      [] k = 2 /\ o = "linux" -> SpecOf({"pip"})
      [] k = 3 /\ o = "windows" -> SpecOf({})
      [] OTHER -> NoSpec

ToolUninstall(t, o) == SampleUninstall(SampleOf(t), o)

\* The one method Manager.Uninstall picks, "" when no field is set
UninstallMethod(o, spec) ==
    IF IsWindows(o) /\ Has(spec, "winget") THEN "winget"
    ELSE IF Has(spec, "brew") THEN "brew"
    ELSE IF Has(spec, "npm") THEN "npm"
    ELSE IF Has(spec, "pip") THEN "pip"
    ELSE ""

\* Manager.Uninstall; e is how the command ends
Uninstall(t, o, e) ==
    LET spec == ToolUninstall(t, o)
        method == UninstallMethod(o, spec)
    IN  IF ~spec.ok THEN Res(FALSE, FALSE, <<>>, "no uninstall method")
        ELSE IF method = "" THEN Res(FALSE, FALSE, <<>>, "no uninstall command")
        ELSE IF e # "ok"
        THEN Res(FALSE, FALSE, <<Cmd(method, "uninstall", e)>>, "uninstall failed")
        ELSE Res(TRUE, FALSE, <<Cmd(method, "uninstall", e)>>, "uninstalled")

\* runRepair: Uninstall, Install, then the verifying probe; ue and mid are
\* how the uninstall command ends and what the version command yields after
\* it, e and after the same for the install command
RunRepairOne(t, o, p, ue, mid, e, after) ==
    LET un == Uninstall(t, o, ue)
        ins == Install(t, o, p, mid, e, after)
        final == IF ins.ran # <<>> THEN after ELSE mid
    IN  IF ~ins.Success THEN Res(FALSE, FALSE, un.ran \o ins.ran, ins.note)
        ELSE IF GetInstalledVersion(t, final).err
        THEN Res(FALSE, FALSE, un.ran \o ins.ran, "verification failed")
        ELSE Res(TRUE, FALSE, un.ran \o ins.ran, "repaired")

\* handleRepair and showRepairMenu, confirmed: only for an installed tool;
\* the outcome is that of Install
HandleRepairOne(t, o, p, before, ue, mid, e, after) ==
    LET un == Uninstall(t, o, ue)
        ins == Install(t, o, p, mid, e, after)
    IN  IF GetInstalledVersion(t, before).err
        THEN Res(FALSE, FALSE, <<>>, "not installed")
        ELSE [ins EXCEPT !.ran = un.ran \o ins.ran]

\* $tool.UninstallMethods of the PowerShell tool definitions, in the order
\* the foreach visits the keys
PSUninstallMethods(t) ==
    CASE SampleOf(t) = 1 -> <<"WinGet", "npm">>
      [] SampleOf(t) = 2 -> <<"WSL">>
      [] OTHER -> <<"pip">>

\* Repair-ToolInstallation: every uninstall command in turn, ues[m] being
\* how the command of method m ends, then Install-CodingTool -Force
RepairToolInstallation(t, p, pref, ues, prereq, before, e, after, acc) ==
    LET ms == PSUninstallMethods(t)
        un == [i \in 1..Len(ms) |-> Cmd(ms[i], "uninstall", ues[ms[i]])]
        ins == InstallCodingTool(t, p, pref, TRUE, prereq, before, e, after, acc)
    IN  [ins EXCEPT !.ran = un \o ins.ran]

\* One iteration of the loop of Manager.UpdateAll
UpdateAllOne(t, o, p, before, fetch, e, after) ==
    IF GetInstalledVersion(t, before).err
    THEN Stepped(Res(FALSE, FALSE, <<>>, "not installed"), <<"probe">>)
    ELSE Update(t, o, p, before, fetch, e, after)

\* The keys Update-AllTools stores a result for: the tools Get-AllToolStatus
\* reports an installed version for
UpdateAllToolsKeys(p, before) ==
    {t \in Tools : PSToolStatus(t, TestWSLInstalled(p),
                                PSGetInstalledVersion(t, p, before[t]), NoStr).InstalledVersion
                       # NoStr}

\* One iteration of the foreach of Update-AllTools for a key it stores;
\* latest is what Get-LatestVersion returned to Get-AllToolStatus
UpdateAllToolsOne(t, p, force, before, latest, e, after) ==
    LET st == PSToolStatus(t, TestWSLInstalled(p), PSGetInstalledVersion(t, p, before), latest)
    IN  IF st.Status = "UPDATE" \/ force
        THEN UpdateCodingTool(t, p, before, e, after)
        ELSE Res(TRUE, TRUE, <<>>, "already up to date")

\* Any host, each tool in any state; nothing has been called yet
OrchInit ==
    /\ AggIdle /\ SelIdle /\ CmpIdle /\ FnIdle /\ SpinIdle
    /\ impl \in {"go", "ps"}
    /\ \E h \in HostPool : os = h[1] /\ path = h[2]
    /\ impl = "ps" => os = "windows"
    /\ host \in [Tools -> OrchRunPool]
    /\ last = Nil

\* The record of one call: the operation, its parameters, what the version
\* commands yielded when it started, and its outcome per tool
Call(op, entry, pref, forced, results) ==
    [op |-> op, entry |-> entry, preferred |-> pref, forced |-> forced,
     before |-> host, res |-> results]

\* The host after the commands of a call: a tool is touched only by a
\* command that ran for it
HostAfter(results, afters) ==
    [t \in Tools |-> IF t \in DOMAIN results /\ results[t].ran # <<>>
                     THEN afters[t] ELSE host[t]]

\* showInstallMenu, a single tool selected and confirmed
MenuInstall ==
    /\ impl = "go" /\ last = Nil
    /\ \E t \in Tools, e \in ExitCodes, afters \in [Tools -> OrchRunPool] :
          LET results == [x \in {t} |-> Install(t, os, path, host[t], e, afters[t])]
          IN  /\ last' = Call("Install", "showInstallMenu", "", FALSE, results)
              /\ host' = HostAfter(results, afters)
    /\ UNCHANGED <<hostVars, cmpVars, fnVars, spinVars, aggVars, selVars>>

\* agenthelper install <tool> [--method pref]
RunInstall ==
    /\ impl = "go" /\ last = Nil
    /\ \E t \in Tools, pref \in GoPreferredPool, e \in ExitCodes,
          afters \in [Tools -> OrchRunPool] :
          LET results == [x \in {t} |->
                              RunInstallOne(t, os, path, pref, host[t], e, afters[t])]
          IN  /\ last' = Call("Install", "runInstall", pref, FALSE, results)
              /\ host' = HostAfter(results, afters)
    /\ UNCHANGED <<hostVars, cmpVars, fnVars, spinVars, aggVars, selVars>>

\* Manager.InstallAll(pref)
InstallAll ==
    /\ impl = "go" /\ last = Nil
    /\ \E pref \in GoPreferredPool, es \in [Tools -> ExitCodes],
          afters \in [Tools -> OrchRunPool] :
          LET results == [t \in Tools |->
                              InstallAllOne(t, os, path, pref, host[t], es[t], afters[t])]
          IN  /\ last' = Call("Install", "InstallAll", pref, FALSE, results)
              /\ host' = HostAfter(results, afters)
    /\ UNCHANGED <<hostVars, cmpVars, fnVars, spinVars, aggVars, selVars>>

\* Manager.Update(tool); rv is the latest version published, and the
\* lookup returns it, returns an empty string, or fails
GoUpdate ==
    /\ impl = "go" /\ last = Nil
    /\ \E t \in Tools, rv \in LatestPool, e \in ExitCodes,
          afters \in [Tools -> OrchRunPool] :
        \E fetch \in {Failed, Got(NoStr), Got(rv)} :
          LET results == [x \in {t} |->
                  [Update(t, os, path, host[t], fetch, e, afters[t])
                      EXCEPT !.remote = rv, !.fetch = fetch]]
          IN  /\ last' = Call("Update", "Update", "", FALSE, results)
              /\ host' = HostAfter(results, afters)
    /\ UNCHANGED <<hostVars, cmpVars, fnVars, spinVars, aggVars, selVars>>

\* Install-CodingTool -ToolKey t -PreferredMethod pref [-Force]
PSInstall ==
    /\ impl = "ps" /\ last = Nil
    /\ \E t \in Tools, pref \in PSPreferredPool, force \in BOOLEAN, prereq \in BOOLEAN,
          e \in PSExitCodes, afters \in [Tools -> OrchRunPool], acc \in BOOLEAN :
          LET results == [x \in {t} |->
                  InstallCodingTool(t, path, pref, force, prereq, host[t], e, afters[t], acc)]
          IN  /\ last' = Call("Install", "Install-CodingTool", pref, force, results)
              /\ host' = HostAfter(results, afters)
    /\ UNCHANGED <<hostVars, cmpVars, fnVars, spinVars, aggVars, selVars>>

\* Update-CodingTool -ToolKey t; rv is the latest version published
PSUpdate ==
    /\ impl = "ps" /\ last = Nil
    /\ \E t \in Tools, rv \in LatestPool, e \in PSExitCodes,
          afters \in [Tools -> OrchRunPool] :
          LET results == [x \in {t} |->
                  [UpdateCodingTool(t, path, host[t], e, afters[t]) EXCEPT !.remote = rv]]
          IN  /\ last' = Call("Update", "Update-CodingTool", "", FALSE, results)
              /\ host' = HostAfter(results, afters)
    /\ UNCHANGED <<hostVars, cmpVars, fnVars, spinVars, aggVars, selVars>>

\* The commands of kind k among those result r ran
RanOfKind(r, k) == SelectSeq(r.ran, LAMBDA c : c.kind = k)

\* The host after a repair of tool t: what the last command that ran left
HostAfterRepair(t, r, mid, after) ==
    [host EXCEPT ![t] = IF RanOfKind(r, "install") # <<>> THEN after
                        ELSE IF RanOfKind(r, "uninstall") # <<>> THEN mid
                        ELSE @]

\* agenthelper repair <tool>
GoRunRepair ==
    /\ impl = "go" /\ last = Nil
    /\ \E t \in Tools, ue \in ExitCodes, mid \in OrchRunPool, e \in ExitCodes,
          after \in OrchRunPool :
          LET r == RunRepairOne(t, os, path, ue, mid, e, after)
          IN  /\ last' = Call("Repair", "runRepair", "", TRUE, [x \in {t} |-> r])
              /\ host' = HostAfterRepair(t, r, mid, after)
    /\ UNCHANGED <<hostVars, cmpVars, fnVars, spinVars, aggVars, selVars>>

\* /repair <tool> and the repair menu, confirmed
GoHandleRepair ==
    /\ impl = "go" /\ last = Nil
    /\ \E t \in Tools, entry \in {"handleRepair", "showRepairMenu"},
          ue \in ExitCodes, mid \in OrchRunPool, e \in ExitCodes, after \in OrchRunPool :
          LET r == HandleRepairOne(t, os, path, host[t], ue, mid, e, after)
          IN  /\ last' = Call("Repair", entry, "", TRUE, [x \in {t} |-> r])
              /\ host' = HostAfterRepair(t, r, mid, after)
    /\ UNCHANGED <<hostVars, cmpVars, fnVars, spinVars, aggVars, selVars>>

\* Repair-ToolInstallation -ToolKey t -PreferredMethod pref
PSRepair ==
    /\ impl = "ps" /\ last = Nil
    /\ \E t \in Tools, pref \in PSPreferredPool, prereq \in BOOLEAN,
          mid \in OrchRunPool, e \in PSExitCodes, after \in OrchRunPool, acc \in BOOLEAN :
        \E ues \in [{PSUninstallMethods(t)[i] : i \in 1..Len(PSUninstallMethods(t))}
                        -> PSExitCodes] :
          LET r == RepairToolInstallation(t, path, pref, ues, prereq, mid, e, after, acc)
          IN  /\ last' = Call("Repair", "Repair-ToolInstallation", pref, TRUE,
                              [x \in {t} |-> r])
              /\ host' = HostAfterRepair(t, r, mid, after)
    /\ UNCHANGED <<hostVars, cmpVars, fnVars, spinVars, aggVars, selVars>>

\* Manager.UpdateAll(); rv is the latest version published, and each
\* lookup returns it, returns an empty string, or fails
GoUpdateAll ==
    /\ impl = "go" /\ last = Nil
    /\ \E rv \in LatestPool, es \in [Tools -> ExitCodes], afters \in [Tools -> OrchRunPool] :
        \E fetches \in [Tools -> {Failed, Got(NoStr), Got(rv)}] :
          LET results == [t \in Tools |->
                  [UpdateAllOne(t, os, path, host[t], fetches[t], es[t], afters[t])
                      EXCEPT !.remote = rv, !.fetch = fetches[t]]]
          IN  /\ last' = Call("Update", "UpdateAll", "", FALSE, results)
              /\ host' = HostAfter(results, afters)
    /\ UNCHANGED <<hostVars, cmpVars, fnVars, spinVars, aggVars, selVars>>

\* Update-AllTools [-Force]; lvs are the latest versions Get-AllToolStatus
\* resolved (NoStr: none)
PSUpdateAll ==
    /\ impl = "ps" /\ last = Nil
    /\ \E force \in BOOLEAN, lvs \in [Tools -> LatestPool \cup {NoStr}],
          es \in [Tools -> PSExitCodes], afters \in [Tools -> OrchRunPool] :
          LET results == [t \in UpdateAllToolsKeys(path, host) |->
                  [UpdateAllToolsOne(t, path, force, host[t], lvs[t], es[t], afters[t])
                      EXCEPT !.remote = lvs[t]]]
          IN  /\ \A t \in Tools :
                    ~PSStatusHangs(t, TestWSLInstalled(path),
                                   PSGetInstalledVersion(t, path, host[t]), lvs[t])
              /\ last' = Call("Update", "Update-AllTools", "", force, results)
              /\ host' = HostAfter(results, afters)
    /\ UNCHANGED <<hostVars, cmpVars, fnVars, spinVars, aggVars, selVars>>

\* The outcome has been reported: the command returns, the menu is shown
\* again
Return ==
    /\ last # Nil
    /\ last' = Nil
    /\ UNCHANGED <<hostVars, cmpVars, fnVars, spinVars, aggVars, selVars, host>>

OrchNext ==
    \/ MenuInstall
    \/ RunInstall
    \/ InstallAll
    \/ GoUpdate
    \/ PSInstall
    \/ PSUpdate
    \/ GoRunRepair
    \/ GoHandleRepair
    \/ PSRepair
    \/ GoUpdateAll
    \/ PSUpdateAll
    \/ Return

SpecOrch == OrchInit /\ [][OrchNext]_vars

-----------------------------------------------------------------------------
(* Properties of the status computation                                    *)

\* The comparator orders latest strictly after installed
OrdersAfter(installed, latest) ==
    LET i == NewVersion(TrimPrefixV(installed))
        l == NewVersion(TrimPrefixV(latest))
    IN  i.ok /\ l.ok /\ GreaterThan(l, i)

PSOrdersAfter(installed, latest) ==
    LET c == PSCompareVersion(installed, latest)
    IN  c.kind = "int" /\ c.val = -1

\* C1: in every status record produced, HasUpdate (Status 'UPDATE' in the
\* PowerShell record) is true exactly when the installed and the latest
\* version were both resolved and the comparator orders latest strictly
\* after installed.
C1_HasUpdateIffOrdered ==
    /\ \A i \in Tools :
          statuses[i] # Nil =>
              (statuses[i].HasUpdate <=>
                  /\ statuses[i].IsInstalled
                  /\ statuses[i].InstalledVer # NoStr
                  /\ statuses[i].LatestVer # NoStr
                  /\ OrdersAfter(statuses[i].InstalledVer, statuses[i].LatestVer))
    /\ \A k \in 1..Len(psResults) :
          (psResults[k].Status = "UPDATE" <=>
              /\ psResults[k].InstalledVersion # NoStr
              /\ psResults[k].LatestVersion # NoStr
              /\ PSOrdersAfter(psResults[k].InstalledVersion, psResults[k].LatestVersion))

C1_Witness ==
    /\ main = "returned" /\ impl = "go"
    /\ \E i \in Tools : result[i].HasUpdate
    /\ \E i \in Tools : result[i].IsInstalled /\ result[i].LatestVer = NoStr
                        /\ ~result[i].HasUpdate

\* C2: GetAllToolStatus returns one record per configured tool, none empty,
\* record i being the status of tool i, whatever the probes and fetches did.
C2_OneRecordPerTool ==
    (impl = "go" /\ main = "returned") =>
        /\ DOMAIN result = 1..NumTools
        /\ \A i \in Tools : result[i] # Nil /\ result[i].Tool = i

C2_Witness ==
    /\ impl = "go" /\ main = "returned"
    /\ \E i \in Tools : fetched[i].err /\ ~probed[i].ok
    /\ \E i \in Tools : ~fetched[i].err

\* C3: a goroutine writes only the slot of its own input index, no slot is
\* written twice, and once a goroutine is past its store its slot has been
\* written exactly once.
C3_DisjointSlots ==
    \A i \in Tools :
        /\ \A k \in 1..Len(writes[i]) : writes[i][k] = i
        /\ Len(writes[i]) <= 1
        /\ pc[i] \in {"exit", "done"} => Len(writes[i]) = 1
        /\ (impl = "go" /\ main = "returned") => Len(writes[i]) = 1

C3_Witness ==
    /\ pc[1] = "store" /\ pc[NumTools] = "exit"
    /\ Len(writes[NumTools]) = 1 /\ Len(writes[1]) = 0

\* C4: the aggregator returns only after every goroutine is done; it does
\* return unless a remote lookup stalls for ever; and while the lookup of
\* one tool stalls, the goroutines of the other tools still complete.
C4_JoinBarrier ==
    /\ [](impl = "go" /\ main = "returned" => \A g \in Tools : pc[g] = "done")
    /\ impl = "go" => (<>(main = "returned") \/ <>[](pc[1] = "fetch"))
    /\ impl = "go" => \A g \in Tools \ {1} : <>(pc[g] = "done")

C4_Witness ==
    /\ impl = "go" /\ main = "wait"
    /\ pc[1] = "fetch" /\ pc[NumTools] = "done"

-----------------------------------------------------------------------------
(* Properties of the orchestrators                                         *)

\* The version probe of tool t succeeds when its version command yields run
InstalledOn(t, run) ==
    IF impl = "go" THEN ~GetInstalledVersion(t, run).err
    ELSE PSGetInstalledVersion(t, path, run) # NoStr

\* The preferred method of the last call is defined for tool t / available
PreferredDefined(t) ==
    IF impl = "go"
    THEN ToolInstall(t, os).ok /\ last.preferred \in ToolInstall(t, os).fields
    ELSE last.preferred \in PSInstallMethods(t)

PreferredAvailable ==
    IF impl = "go" THEN IsAvailable(os, path, last.preferred)
    ELSE PSFallbackUsable(path, last.preferred)

\* C5: an Update of a tool whose installed version is the latest version
\* published runs no command and returns success with WasUpToDate.
C5_UpToDateRunsNothing ==
    (last # Nil /\ last.op = "Update") =>
        \A t \in DOMAIN last.res :
            (InstalledOn(t, last.before[t]) /\ last.before[t].ver = last.res[t].remote) =>
                /\ last.res[t].ran = <<>>
                /\ last.res[t].Success
                /\ last.res[t].WasUpToDate

\* Manager.Update fetched a latest version equal to the installed one and
\* still ran a command.
C5_Witness ==
    /\ last # Nil /\ last.op = "Update" /\ impl = "go"
    /\ \E t \in DOMAIN last.res :
          /\ last.before[t] = RunYields(V1234)
          /\ last.res[t].fetch = Got(V1234)
          /\ last.res[t].ran # <<>>

\* C6: an Install of a tool whose version probe succeeds, not forced, ends
\* as already satisfied without running any command.
C6_InstalledRunsNothing ==
    (last # Nil /\ last.op = "Install" /\ ~last.forced) =>
        \A t \in DOMAIN last.res :
            InstalledOn(t, last.before[t]) =>
                /\ last.res[t].ran = <<>>
                /\ last.res[t].note = "already installed"

\* Manager.Install, called from the install menu, ran a command for a tool
\* whose probe succeeded.
C6_Witness ==
    /\ last # Nil /\ last.entry = "showInstallMenu"
    /\ \E t \in DOMAIN last.res :
          /\ last.before[t] = RunYields(V123)
          /\ last.res[t].ran # <<>>

\* C7: an Install whose command ended with a failure status does not report
\* success.
C7_FailedCommandNotSuccess ==
    (last # Nil /\ last.op = "Install") =>
        \A t \in DOMAIN last.res :
            (\E i \in 1..Len(last.res[t].ran) : last.res[t].ran[i].exit # "ok") =>
                ~last.res[t].Success

\* Install-CodingTool returned $true after a command that exited non-zero
\* and left the tool unresolvable.
C7_Witness ==
    /\ last # Nil /\ last.entry = "Install-CodingTool"
    /\ \E t \in DOMAIN last.res :
          /\ last.res[t].ran # <<>> /\ last.res[t].ran[1].exit = "fail"
          /\ ~InstalledOn(t, host[t])
          /\ last.res[t].Success

\* C8: an Install whose command exited with 0, after which neither the
\* probe nor the path recovery finds the tool, returns a failed result.
C8_UnverifiedNotSuccess ==
    (last # Nil /\ last.op = "Install") =>
        \A t \in DOMAIN last.res :
            (/\ last.res[t].ran # <<>>
             /\ \A i \in 1..Len(last.res[t].ran) : last.res[t].ran[i].exit = "ok"
             /\ ~InstalledOn(t, host[t])
             /\ ~last.res[t].accessible) =>
                ~last.res[t].Success

\* Install-CodingTool returned $true after a command that exited with 0
\* although the probe and Ensure-ToolInPath both failed.
C8_Witness ==
    /\ last # Nil /\ last.entry = "Install-CodingTool"
    /\ \E t \in DOMAIN last.res :
          /\ last.res[t].ran # <<>> /\ last.res[t].ran[1].exit = "ok"
          /\ ~InstalledOn(t, host[t]) /\ ~last.res[t].accessible
          /\ last.res[t].Success

\* C9: with a preferred method, the command that an Install runs is the
\* preferred method's exactly when the InstallSpec defines it and its
\* manager is available; an unavailable preferred manager is never run.
C9_PreferredIffAvailable ==
    (last # Nil /\ last.op = "Install" /\ last.preferred # "") =>
        \A t \in DOMAIN last.res :
            last.res[t].ran # <<>> =>
                (last.res[t].ran[1].method = last.preferred
                    <=> PreferredDefined(t) /\ PreferredAvailable)

\* runInstall / InstallAll ran the preferred method's command although its
\* manager is not available.
C9_Witness ==
    /\ last # Nil /\ last.op = "Install" /\ impl = "go" /\ last.preferred # ""
    /\ \E t \in DOMAIN last.res :
          /\ last.res[t].ran # <<>>
          /\ last.res[t].ran[1].method = last.preferred
          /\ ~IsAvailable(os, path, last.preferred)

-----------------------------------------------------------------------------
(* Properties of the selector                                              *)

\* The order in which the selector tries the methods on OS o: the managers
\* native to the OS, then npm, then pip, then the install script
PriorityOrder(o) ==
    (IF o = "windows" THEN <<"winget">> ELSE <<>>)
    \o (IF o = "darwin" THEN <<"brew">> ELSE <<>>)
    \o (IF o = "linux" THEN <<"apt", "brew", "pacman">> ELSE <<>>)
    \o <<"npm", "pip", "script">>

\* Method m is defined by the InstallSpec and can be used on this host; an
\* install script needs no manager
Usable(m) ==
    IF impl = "go"
    THEN ispec.ok /\ m \in ispec.fields /\ (m = "script" \/ IsAvailable(os, path, m))
    ELSE m \in ispec.fields /\ PSFallbackUsable(path, m)

\* m is the first usable method of order
FirstUsable(order, m) ==
    \E i \in 1..Len(order) :
        /\ order[i] = m /\ Usable(m)
        /\ \A j \in 1..(i - 1) : ~Usable(order[j])

SelectorOrder == IF impl = "go" THEN PriorityOrder(os) ELSE PSFallbackOrder

\* C10: with no preferred method the selector returns the first method of
\* its fixed order (Go: the managers native to the OS, npm, pip, then the
\* install script; PowerShell: WinGet, npm, pip, Native, WSL, Scoop) that
\* the InstallSpec defines and that is usable, and no method exactly when
\* the InstallSpec defines no usable method.
C10_FirstUsableInOrder ==
    (chosen # Nil /\ preferred = "") =>
        /\ chosen.method # NoMethod => FirstUsable(SelectorOrder, chosen.method)
        /\ chosen.method = NoMethod <=> \A m \in Methods \cup PSMethods : ~Usable(m)

C10_Witness ==
    /\ chosen # Nil /\ preferred = "" /\ impl = "go" /\ os = "linux"
    /\ chosen.method = "pip"
    /\ ispec.fields = {"apt", "npm", "pip", "script"}
    /\ path = {"pip3", "winget"}

\* C10 as stated, with npm and then pip closing the order: pip is returned
\* only when no other method of the InstallSpec is usable.
C10_PipLast ==
    (chosen # Nil /\ preferred = "") =>
        /\ chosen.method # NoMethod => Usable(chosen.method)
        /\ chosen.method = NoMethod <=> \A m \in Methods \cup PSMethods : ~Usable(m)
        /\ chosen.method = "npm" =>
              \A m \in (Methods \cup PSMethods) \ {"npm", "pip"} : ~Usable(m)
        /\ chosen.method = "pip" =>
              \A m \in (Methods \cup PSMethods) \ {"pip"} : ~Usable(m)

-----------------------------------------------------------------------------
(* Falling back from a preferred method                                    *)

\* Method m is defined for tool t on this host and can be used
ToolUsable(t, m) ==
    IF impl = "go"
    THEN /\ ToolInstall(t, os).ok /\ m \in ToolInstall(t, os).fields
         /\ (m = "script" \/ IsAvailable(os, path, m))
    ELSE m \in PSInstallMethods(t) /\ PSFallbackUsable(path, m)

\* m is the first method of the selector's order that tool t can use
FirstToolUsable(t, m) ==
    \E i \in 1..Len(SelectorOrder) :
        /\ SelectorOrder[i] = m /\ ToolUsable(t, m)
        /\ \A j \in 1..(i - 1) : ~ToolUsable(t, SelectorOrder[j])

\* The call got as far as selecting a method for tool t
Attempted(t) ==
    last.res[t].note \notin {"already installed", "requires WSL", "prerequisites"}

\* C11: an Install with a preferred method that the InstallSpec does not
\* define, or whose manager is unavailable, installs with the first defined
\* and available method of the priority order instead of failing.
C11_FallsBackToPriority ==
    (last # Nil /\ last.op = "Install" /\ last.preferred # "") =>
        \A t \in DOMAIN last.res :
            (/\ Attempted(t)
             /\ ~(PreferredDefined(t) /\ PreferredAvailable)
             /\ \E m \in Methods \cup PSMethods : ToolUsable(t, m)) =>
                /\ last.res[t].ran # <<>>
                /\ FirstToolUsable(t, last.res[t].ran[1].method)

\* runInstall was given a method the InstallSpec does not define and
\* failed although another method of the tool was usable.
C11_Witness ==
    /\ last # Nil /\ last.entry = "runInstall" /\ last.preferred = "apt"
    /\ os = "windows"
    /\ \E t \in DOMAIN last.res :
          /\ ToolUsable(t, "npm")
          /\ last.res[t].ran = <<>>
          /\ last.res[t].note = "method not available"

-----------------------------------------------------------------------------
(* The comparator on its own                                               *)

V1 == <<"1">>
V2 == <<"2">>
V199 == <<"1", ".", "9", ".", "9">>
V200 == <<"2", ".", "0", ".", "0">>
Vv130 == <<"v", "1", ".", "3", ".", "0">>
V1x == <<"1", ".", "x">>

\* The version strings handed to the comparator
ComparePool ==
    {NoStr, V1, V2, V12, V123, V130, V1100, V199, V200, Vv123, Vv130, V1234, Vbad, V1x}

CmpInit ==
    /\ AggIdle /\ SelIdle /\ OrchIdle /\ FnIdle /\ SpinIdle
    /\ impl \in {"go", "ps"}
    /\ \E h \in HostPool : os = h[1] /\ path = h[2] /\ (impl = "ps" => h[1] = "windows")
    /\ cmpA \in ComparePool /\ cmpB \in ComparePool
    /\ cmpOut = Nil

\* hasUpdate, err := m.CompareVersions(installed, latest)
CompareGo ==
    /\ impl = "go" /\ cmpOut = Nil
    /\ cmpOut' = CompareVersions(cmpA, cmpB)
    /\ UNCHANGED <<hostVars, fnVars, spinVars, aggVars, selVars, orchVars, cmpA, cmpB>>

\* $comparison = Compare-Version -Installed $a -Latest $b; kind "hang"
\* stands for the call that never returns
ComparePS ==
    /\ impl = "ps" /\ cmpOut = Nil
    /\ cmpOut' = PSCompareVersion(cmpA, cmpB)
    /\ UNCHANGED <<hostVars, fnVars, spinVars, aggVars, selVars, orchVars, cmpA, cmpB>>

CmpNext == CompareGo \/ ComparePS

SpecCompare == CmpInit /\ [][CmpNext]_vars

\* s is a dotted-numeric version: an optional "v", then one to three
\* non-empty fields of digits
ValidDotted(s) ==
    LET g == SplitDots(TrimPrefixV(s))
    IN  /\ Len(g) \in 1..3
        /\ \A i \in 1..Len(g) : Len(g[i]) >= 1 /\ \A k \in 1..Len(g[i]) : g[i][k] \in DigitChars

\* Field i of version s as a number, 0 when s has no such field
FieldOf(s, i) ==
    LET g == SplitDots(TrimPrefixV(s))
    IN  IF i <= Len(g) THEN ParseUint(g[i]) ELSE 0

\* b is strictly greater than a, field by field
NumericallyLess(a, b) ==
    \E k \in 1..3 :
        /\ FieldOf(a, k) < FieldOf(b, k)
        /\ \A j \in 1..(k - 1) : FieldOf(a, j) = FieldOf(b, j)

\* The comparator's answer says that an update is available
ReportsUpdate(out) ==
    IF impl = "go" THEN ~out.err /\ out.hasUpdate
    ELSE out.kind = "int" /\ out.val < 0

\* C12: on two dotted-numeric versions, each with an optional leading "v",
\* the comparator reports an update exactly when latest is strictly greater
\* than installed field by field, missing trailing fields counting as zero.
C12_NumericOrder ==
    (cmpOut # Nil /\ ValidDotted(cmpA) /\ ValidDotted(cmpB)) =>
        (ReportsUpdate(cmpOut) <=> NumericallyLess(cmpA, cmpB))

\* Compare-Version of "1" and "1.2" never returns.
C12_Witness ==
    /\ impl = "ps" /\ cmpOut # Nil
    /\ cmpA = V1 /\ cmpB = V12
    /\ cmpOut.kind = "hang"

\* s is no version at all: empty, or with a character that is neither a
\* digit nor a dot after the optional "v"
NotAVersion(s) ==
    \/ s = NoStr
    \/ \E k \in 1..Len(TrimPrefixV(s)) : TrimPrefixV(s)[k] \notin DigitChars \cup {"."}

\* C13: when either input is not a version the comparator returns its error
\* (CompareVersions: a non-nil error, Compare-Version: $null) with no update
\* reported, and the status derived from the two strings has no update.
C13_UnparsableNoUpdate ==
    (cmpOut # Nil /\ (NotAVersion(cmpA) \/ NotAVersion(cmpB))) =>
        IF impl = "go"
        THEN /\ cmpOut.err /\ ~cmpOut.hasUpdate
             /\ \A t \in Tools :
                   ~GetToolStatus(t, os, path, RunYields(cmpA), Got(cmpB)).HasUpdate
        ELSE /\ cmpOut.kind = "null"
             /\ \A t \in Tools :
                   PSToolStatus(t, TRUE, cmpA, cmpB).Status # "UPDATE"

C13_Witness ==
    /\ impl = "go" /\ cmpOut # Nil
    /\ cmpA = V123 /\ cmpB = V1x
    /\ cmpOut.err

\* The version command of tool i yielded a version
ProbeResolved(i) == HasVersionCmd(i) /\ probed[i].ok /\ probed[i].ver # NoStr

\* C14: a failed lookup of the latest version (network error, HTTP error,
\* unknown source type) does not fail the status of the tool: the record is
\* stored with the installed flag and version the probe gave, an empty
\* latest version and no update, and the records of the other tools keep
\* the latest version their own lookup returned.
C14_FetchFailureNotFatal ==
    impl = "go" =>
        \A i \in Tools :
            (pc[i] \in {"exit", "done"} /\ fetched[i].err) =>
                /\ statuses[i] # Nil
                /\ statuses[i].IsInstalled = ProbeResolved(i)
                /\ statuses[i].InstalledVer =
                       (IF ProbeResolved(i) THEN probed[i].ver ELSE NoStr)
                /\ statuses[i].LatestVer = NoStr
                /\ ~statuses[i].HasUpdate
                /\ \A j \in Tools \ {i} :
                      (pc[j] \in {"exit", "done"} /\ ~fetched[j].err) =>
                          /\ statuses[j] # Nil
                          /\ statuses[j].LatestVer = fetched[j].ver
                          /\ statuses[j].IsInstalled = ProbeResolved(j)

C14_Witness ==
    /\ impl = "go" /\ main = "returned"
    /\ \E i \in Tools, j \in Tools :
          /\ fetched[i] = UnknownSourceType
          /\ result[i].IsInstalled /\ result[i].InstalledVer = V123
          /\ result[i].LatestVer = NoStr
          /\ fetched[j] = Got(V1100) /\ result[j].LatestVer = V1100

\* C15: a tool whose executable is not on the search path gets a status
\* with IsInstalled false, an empty InstalledVer and HasUpdate false,
\* whether or not its latest version was resolved.
C15_AbsentToolNotInstalled ==
    \A i \in Tools :
        (statuses[i] # Nil /\ probed[i] = RunNotFound) =>
            /\ ~statuses[i].IsInstalled
            /\ statuses[i].InstalledVer = NoStr
            /\ ~statuses[i].HasUpdate

C15_Witness ==
    /\ impl = "go" /\ main = "returned"
    /\ \E i \in Tools :
          /\ probed[i] = RunNotFound
          /\ result[i].LatestVer = V1100
          /\ ~result[i].IsInstalled /\ ~result[i].HasUpdate

\* Step st is one of the steps result r went through
Took(r, st) == \E k \in 1..Len(r.steps) : r.steps[k] = st

\* C16: Update of a tool whose version probe fails returns a failed result
\* and has neither looked up the latest version, nor selected a method, nor
\* run a command.
C16_UpdateStopsWhenNotInstalled ==
    (last # Nil /\ last.op = "Update") =>
        \A t \in DOMAIN last.res :
            ~InstalledOn(t, last.before[t]) =>
                /\ ~last.res[t].Success
                /\ last.res[t].ran = <<>>
                /\ ~Took(last.res[t], "fetch")
                /\ ~Took(last.res[t], "select")
                /\ ~Took(last.res[t], "run")

C16_Witness ==
    /\ last # Nil /\ last.entry = "Update" /\ impl = "go"
    /\ \E t \in DOMAIN last.res :
          /\ last.before[t] = RunFails
          /\ last.res[t].note = "not installed"
          /\ last.res[t].steps = <<"probe">>
          /\ last.res[t].remote = V130

\* The uninstall methods declared for tool t on this host
DeclaredUninstall(t) ==
    IF impl = "go"
    THEN IF ToolUninstall(t, os).ok THEN ToolUninstall(t, os).fields ELSE {}
    ELSE {PSUninstallMethods(t)[i] : i \in 1..Len(PSUninstallMethods(t))}

\* The methods whose command of kind k result r ran
MethodsRan(r, k) == {r.ran[i].method : i \in {j \in 1..Len(r.ran) : r.ran[j].kind = k}}

\* C17: the uninstall step attempts every uninstall method declared for the
\* tool on the current OS, whatever the earlier ones returned.
C17_EveryUninstallMethodAttempted ==
    (last # Nil /\ last.op = "Repair") =>
        \A t \in DOMAIN last.res :
            last.res[t].note # "not installed" =>
                MethodsRan(last.res[t], "uninstall") = DeclaredUninstall(t)

\* Manager.Uninstall on Windows for a tool that declares winget and npm:
\* the winget command fails and the npm command is not attempted.
C17_Witness ==
    /\ last # Nil /\ last.entry = "runRepair" /\ os = "windows"
    /\ \E t \in DOMAIN last.res :
          /\ DeclaredUninstall(t) = {"winget", "npm"}
          /\ RanOfKind(last.res[t], "uninstall") = <<Cmd("winget", "uninstall", "fail")>>

\* C18: Repair runs the install step after the uninstall step even when the
\* uninstall failed and the tool still probes as installed, and reports
\* success only if the version probe resolves a version afterwards.
C18_RepairReinstallsAndVerifies ==
    (last # Nil /\ last.op = "Repair") =>
        \A t \in DOMAIN last.res :
            /\ last.res[t].note \notin {"not installed", "no method", "requires WSL",
                                        "prerequisites"}
                   => RanOfKind(last.res[t], "install") # <<>>
            /\ last.res[t].Success => InstalledOn(t, host[t])

\* Repair-ToolInstallation returns $true although no version resolves
\* after the reinstall.
C18_Witness ==
    /\ last # Nil /\ last.entry = "Repair-ToolInstallation"
    /\ \E t \in DOMAIN last.res :
          /\ last.res[t].Success
          /\ RanOfKind(last.res[t], "install") # <<>>
          /\ host[t] = RunFails

\* C19: a batch operation returns exactly one result entry for every
\* configured tool, whatever happened to the other tools.
C19_OneEntryPerTool ==
    (last # Nil /\ last.entry \in {"InstallAll", "UpdateAll", "Update-AllTools"}) =>
        DOMAIN last.res = Tools

\* Update-AllTools stores no entry for a tool that is not installed.
C19_Witness ==
    /\ last # Nil /\ last.entry = "Update-AllTools"
    /\ \E t \in Tools, u \in Tools :
          /\ t \notin DOMAIN last.res /\ last.before[t] = RunFails
          /\ u \in DOMAIN last.res /\ last.res[u].ran # <<>>

\* An update of tool t was expected by the last call: the latest version it
\* was given orders after the installed one
UpdateExpected(t) ==
    /\ last.before[t].ok
    /\ IF impl = "go"
       THEN /\ last.res[t].fetch = Got(last.res[t].remote)
            /\ OrdersAfter(last.before[t].ver, last.res[t].remote)
       ELSE PSOrdersAfter(last.before[t].ver, last.res[t].remote)

\* C20: an Update whose command exited successfully, in a run where an
\* update was expected, and after which the probe reports the same version
\* as before, returns a failed result.
C20_UnchangedVersionIsFailure ==
    (last # Nil /\ last.op = "Update") =>
        \A t \in DOMAIN last.res :
            (/\ last.res[t].ran # <<>>
             /\ last.res[t].ran[1].exit = "ok"
             /\ UpdateExpected(t)
             /\ InstalledOn(t, host[t])
             /\ host[t].ver = last.before[t].ver) => ~last.res[t].Success

\* Manager.Update from 1.2.3 with 1.3.0 published: the command exits with
\* status 0, the probe still reports 1.2.3, and the result is a success.
C20_Witness ==
    /\ last # Nil /\ last.entry = "Update" /\ impl = "go"
    /\ \E t \in DOMAIN last.res :
          /\ last.before[t] = RunYields(V123)
          /\ last.res[t].fetch = Got(V130)
          /\ last.res[t].ran # <<>> /\ last.res[t].ran[1].exit = "ok"
          /\ host[t] = RunYields(V123)
          /\ last.res[t].Success /\ last.res[t].WasUpToDate

\* C21: the lookup of the latest version is made for tool i only if the
\* probe reported it installed; no remote fetch for a tool that is not
\* installed.
C21_FetchOnlyWhenInstalled ==
    impl = "go" =>
        \A i \in Tools : fetched[i] # Nil => ProbeResolved(i)

\* GetToolStatus of a tool whose executable is missing: the lookup was made
\* and its answer stored.
C21_Witness ==
    /\ impl = "go" /\ main = "returned"
    /\ \E i \in Tools :
          /\ probed[i] = RunNotFound
          /\ fetched[i] = Got(V1100)
          /\ ~result[i].IsInstalled /\ result[i].LatestVer = V1100

\* C22: the probe never spawns the version command of a tool whose
\* executable is not resolvable on the search path.
C22_NoSpawnWithoutExecutable ==
    \A i \in Tools : probed[i] # Nil => probed[i] # RunNotFound

\* GetInstalledVersion ran the version command through the shell, and the
\* shell found no such executable.
C22_Witness ==
    /\ impl = "go"
    /\ \E i \in Tools :
          /\ HasVersionCmd(i)
          /\ pc[i] = "fetch"
          /\ probed[i] = RunNotFound

-----------------------------------------------------------------------------
(* Version extraction from the output of the version command               *)

\* The patterns of the tool definitions: a literal prefix, then
\* \d+\.\d+\.\d+ with or without the capturing parentheses; "" (no pattern
\* configured), and a pattern that does not compile
Pattern(prefix, group) == [empty |-> FALSE, valid |-> TRUE, prefix |-> prefix, group |-> group]
PatEmpty == [empty |-> TRUE, valid |-> TRUE, prefix |-> <<>>, group |-> FALSE]
PatInvalid == [empty |-> FALSE, valid |-> FALSE, prefix |-> <<>>, group |-> FALSE]
PatDefault == Pattern(<<>>, TRUE)

PatternPool ==
    {PatEmpty, PatInvalid, PatDefault, Pattern(<<>>, FALSE),
     Pattern(<<"v">>, TRUE), Pattern(<<"v">>, FALSE)}

\* What the version command writes to stdout and to stderr
StdoutPool ==
    {<<>>,
     <<"x", " ", "2", ".", "5", ".", "0", " ", "9", "1">>,
     <<"v", "1", ".", "2", ".", "3">>,
     <<"1", ".", "2">>,
     <<"x">>,
     <<"1", ".", "2", ".", "3", ".", "4">>,
     <<"1", "2", ".", "3", ".", "4", "5", "-", "x">>,
     <<"1", ".", "2", ".", "x", " ", "v", "1", ".", "3", ".", "0">>}
StderrPool == {<<>>, <<"v", "1", ".", "3", ".", "0">>}

\* The end of the longest run of digits of s that starts at i, 0 for none
DigitRun(s, i) ==
    IF i <= Len(s) /\ s[i] \in DigitChars
    THEN CHOOSE j \in i..Len(s) :
             /\ \A k \in i..j : s[k] \in DigitChars
             /\ (j = Len(s) \/ s[j + 1] \notin DigitChars)
    ELSE 0

\* A dot at position i of s
DotAt(s, i) == i <= Len(s) /\ s[i] = "."

\* Where \d+\.\d+\.\d+ matched at position i of s ends, 0 for no match
NumberEnd(s, i) ==
    LET a == DigitRun(s, i)
    IN  IF a = 0 \/ ~DotAt(s, a + 1) THEN 0
        ELSE LET b == DigitRun(s, a + 2)
             IN  IF b = 0 \/ ~DotAt(s, b + 1) THEN 0
                 ELSE DigitRun(s, b + 2)

\* Where the pattern matched at position i of s ends, 0 for no match
MatchEnd(pat, s, i) ==
    IF /\ i + Len(pat.prefix) - 1 <= Len(s)
       /\ SubSeq(s, i, i + Len(pat.prefix) - 1) = pat.prefix
    THEN NumberEnd(s, i + Len(pat.prefix))
    ELSE 0

\* re.FindStringSubmatch(output): <<>> for nil, else the leftmost match
\* followed by the text of its group
FindStringSubmatch(pat, s) ==
    IF \E i \in 1..Len(s) : MatchEnd(pat, s, i) # 0
    THEN LET i == CHOOSE k \in 1..Len(s) :
                      /\ MatchEnd(pat, s, k) # 0
                      /\ \A h \in 1..(k - 1) : MatchEnd(pat, s, h) = 0
             j == MatchEnd(pat, s, i)
         IN  IF pat.group
             THEN <<SubSeq(s, i, j), SubSeq(s, i + Len(pat.prefix), j)>>
             ELSE <<SubSeq(s, i, j)>>
    ELSE <<>>

ExtractVersionWholeMatch(output, pattern) ==
    LET pat == IF pattern.empty THEN PatDefault ELSE pattern
        matches == FindStringSubmatch(pat, output)
    IN  IF ~pat.valid THEN NoStr
        ELSE IF Len(matches) > 0 THEN matches[1]
        ELSE NoStr

\* ExtractVersion
ExtractVersion(output, pattern) ==
    LET pat == IF pattern.empty THEN PatDefault ELSE pattern
        matches == FindStringSubmatch(pat, output)
    IN  IF ~pat.valid THEN NoStr
        ELSE IF Len(matches) > 1 THEN matches[2]
        ELSE IF Len(matches) > 0 THEN matches[1]
        ELSE NoStr

\* The output GetInstalledVersion hands to ExtractVersion: stdout, or
\* stderr when stdout is empty
ProbeOutput(stdout, stderr) == IF stdout = <<>> THEN stderr ELSE stdout

ExtractInit ==
    /\ AggIdle /\ SelIdle /\ OrchIdle /\ CmpIdle /\ SpinIdle
    /\ impl = "go"
    /\ \E h \in HostPool : os = h[1] /\ path = h[2]
    /\ \E so \in StdoutPool, se \in StderrPool, pat \in PatternPool, t \in Tools :
          call = [tool |-> t, stdout |-> so, stderr |-> se, pattern |-> pat]
    /\ ret = Nil

\* The tail of Manager.GetInstalledVersion after a successful cmd.Run():
\* the version ExtractVersion finds and what the probe returns
ExtractCall ==
    /\ call # Nil /\ ret = Nil
    /\ LET version == ExtractVersion(ProbeOutput(call.stdout, call.stderr), call.pattern)
       IN  ret' = [version |-> version,
                   probe |-> GetInstalledVersion(call.tool, RunYields(version))]
    /\ UNCHANGED <<hostVars, aggVars, selVars, orchVars, cmpVars, spinVars, call>>

SpecExtract == ExtractInit /\ [][ExtractCall]_vars

\* Text w is number.number.number
IsDottedTriple(w) ==
    /\ \A k \in 1..Len(w) : w[k] \in DigitChars \cup {"."}
    /\ Len(SplitDots(w)) = 3
    /\ \A k \in 1..3 : IsDigits(SplitDots(w)[k])

\* The pattern matches s from position i to position j
Matches(pat, s, i, j) ==
    /\ pat.valid
    /\ i + Len(pat.prefix) <= j
    /\ SubSeq(s, i, i + Len(pat.prefix) - 1) = pat.prefix
    /\ IsDottedTriple(SubSeq(s, i + Len(pat.prefix), j))

\* The leftmost match of the pattern in s, the longest one from there
LeftmostMatch(pat, s) ==
    CHOOSE m \in (1..Len(s)) \X (1..Len(s)) :
        /\ Matches(pat, s, m[1], m[2])
        /\ \A i \in 1..Len(s), j \in 1..Len(s) :
              Matches(pat, s, i, j) => (m[1] < i \/ (m[1] = i /\ j <= m[2]))

\* C23: when the pattern matches the probe output, the version extracted is
\* the text of the first capturing group if the pattern has one and the
\* whole match if it has none; when it does not match, the version is empty
\* and the probe returns an error.
C23_ExtractVersion ==
    ret # Nil =>
        LET s == ProbeOutput(call.stdout, call.stderr)
            pat == IF call.pattern.empty THEN PatDefault ELSE call.pattern
        IN  IF \E i \in 1..Len(s), j \in 1..Len(s) : Matches(pat, s, i, j)
            THEN LET m == LeftmostMatch(pat, s)
                 IN  ret.version = IF pat.group
                                   THEN SubSeq(s, m[1] + Len(pat.prefix), m[2])
                                   ELSE SubSeq(s, m[1], m[2])
            ELSE ret.version = NoStr /\ ret.probe.err /\ ret.probe.ver = NoStr

\* "x 2.5.0 91" with the pattern (\d+\.\d+\.\d+) gives 2.5.0
C23_Witness ==
    /\ ret # Nil
    /\ call.stdout = <<"x", " ", "2", ".", "5", ".", "0", " ", "9", "1">>
    /\ call.pattern = PatDefault
    /\ HasVersionCmd(call.tool)
    /\ ret.probe = Got(<<"2", ".", "5", ".", "0">>)

-----------------------------------------------------------------------------
(* The lookups of the latest version                                       *)

\* An HTTP exchange: httpClient.Get fails, or it returns a status and a
\* body; the body is JSON that parses or not, with the version field the
\* lookup reads (NoStr when the document has no such field), and, read as
\* text, the values of its lines that begin with "version:"
Body(parses, field, versionLines) ==
    [parses |-> parses, field |-> field, versionLines |-> versionLines]
Resp(transport, status, body) == [transport |-> transport, status |-> status, body |-> body]

BodyPool ==
    {Body(FALSE, NoStr, <<>>), Body(TRUE, NoStr, <<>>), Body(TRUE, V123, <<V130>>),
     Body(TRUE, Vv123, <<NoStr, V130>>), Body(FALSE, NoStr, <<V123, V130>>)}
RespPool ==
    {Resp(tr, st, b) : tr \in {"ok", "error"}, st \in {200, 404, 500}, b \in BodyPool}

\* getLatestNpmVersion: info.DistTags.Latest of the parsed body
getLatestNpmVersion(resp) ==
    IF resp.transport # "ok" THEN Failed
    ELSE IF resp.status # 200 THEN Failed
    ELSE IF ~resp.body.parses THEN Failed
    ELSE Got(resp.body.field)

\* getLatestGitHubVersion: release.TagName without its "v"
getLatestGitHubVersion(resp) ==
    IF resp.transport # "ok" THEN Failed
    ELSE IF resp.status # 200 THEN Failed
    ELSE IF ~resp.body.parses THEN Failed
    ELSE Got(TrimPrefixV(resp.body.field))

\* getLatestCursorVersion: the trimmed rest of the first line that begins
\* with "version:"
getLatestCursorVersion(resp) ==
    IF resp.transport # "ok" THEN Failed
    ELSE IF resp.status # 200 THEN Failed
    ELSE IF resp.body.versionLines # <<>> THEN Got(resp.body.versionLines[1])
    ELSE Failed

\* The lookup GetLatestVersion dispatches to
LookupOf(src, resp) ==
    CASE src = "github" -> getLatestGitHubVersion(resp)
      [] src = "cursor-todesktop" -> getLatestCursorVersion(resp)
      [] OTHER -> getLatestNpmVersion(resp)

ResolveInit ==
    /\ AggIdle /\ SelIdle /\ OrchIdle /\ CmpIdle /\ SpinIdle
    /\ impl = "go"
    /\ \E h \in HostPool : os = h[1] /\ path = h[2]
    /\ \E src \in {"npm", "github", "cursor-todesktop", "homebrew"}, resp \in RespPool :
          call = [src |-> src, resp |-> resp]
    /\ ret = Nil

\* latestVersion, err := GetLatestVersion(tool)
ResolveCall ==
    /\ call # Nil /\ ret = Nil
    /\ ret' = GetLatestVersion(call.src, LookupOf(call.src, call.resp))
    /\ UNCHANGED <<hostVars, aggVars, selVars, orchVars, cmpVars, spinVars, call>>

SpecResolve == ResolveInit /\ [][ResolveCall]_vars

\* The payload of the exchange carries a version for source src
PayloadHasVersion(src, resp) ==
    IF src = "cursor-todesktop"
    THEN resp.body.versionLines # <<>> /\ resp.body.versionLines[1] # NoStr
    ELSE resp.body.parses /\ resp.body.field # NoStr

\* C24: the lookup returns an error whenever the fetch fails, the status is
\* not success, or the payload is unparsable or lacks the version field,
\* and never a nil error together with an empty version.
C24_ErrorOrVersion ==
    ret # Nil =>
        /\ (\/ call.resp.transport # "ok"
            \/ call.resp.status # 200
            \/ ~PayloadHasVersion(call.src, call.resp)) => ret.err
        /\ ~(~ret.err /\ ret.ver = NoStr)

\* The npm registry answers 200 with a JSON document that has no
\* dist-tags.latest: getLatestNpmVersion returns ("", nil).
C24_Witness ==
    /\ ret # Nil
    /\ call.src = "npm"
    /\ call.resp = Resp("ok", 200, Body(TRUE, NoStr, <<>>))
    /\ ret = Got(NoStr)

-----------------------------------------------------------------------------
(* The authorization of the release-API lookup                             *)

\* The values of the environment variables GH_TOKEN and GITHUB_TOKEN ("":
\* unset or empty)
TokenPool == {"", "tokA", "tokB", "tokC"}

\* The bearer token of the request getLatestGitHubVersion builds: it sets
\* the Accept header and nothing else
GitHubBearer(ghToken, githubToken) == ""

\* The bearer token of the request Get-LatestGitHubVersion builds
PSGitHubBearer(ghToken, githubToken) ==
    LET token == IF ghToken # "" THEN ghToken ELSE githubToken
    IN  IF token # "" THEN token ELSE ""

TokenInit ==
    /\ AggIdle /\ SelIdle /\ OrchIdle /\ CmpIdle /\ SpinIdle
    /\ impl \in {"go", "ps"}
    /\ \E h \in HostPool : os = h[1] /\ path = h[2] /\ (impl = "ps" => h[1] = "windows")
    /\ \E gh \in TokenPool, github \in TokenPool :
          call = [GH_TOKEN |-> gh, GITHUB_TOKEN |-> github]
    /\ ret = Nil

\* getLatestGitHubVersion sends its request
GitHubRequest ==
    /\ impl = "go" /\ call # Nil /\ ret = Nil
    /\ ret' = [bearer |-> GitHubBearer(call.GH_TOKEN, call.GITHUB_TOKEN)]
    /\ UNCHANGED <<hostVars, aggVars, selVars, orchVars, cmpVars, spinVars, call>>

\* Get-LatestGitHubVersion sends its request
PSGitHubRequest ==
    /\ impl = "ps" /\ call # Nil /\ ret = Nil
    /\ ret' = [bearer |-> PSGitHubBearer(call.GH_TOKEN, call.GITHUB_TOKEN)]
    /\ UNCHANGED <<hostVars, aggVars, selVars, orchVars, cmpVars, spinVars, call>>

TokenNext == GitHubRequest \/ PSGitHubRequest

SpecToken == TokenInit /\ [][TokenNext]_vars

\* C25: the release-API request carries a bearer token exactly when one of
\* GH_TOKEN, GITHUB_TOKEN is non-empty, and the token is the first
\* non-empty one in that order.
C25_BearerIffTokenSet ==
    ret # Nil =>
        /\ (ret.bearer # "") <=> (call.GH_TOKEN # "" \/ call.GITHUB_TOKEN # "")
        /\ ret.bearer = IF call.GH_TOKEN # "" THEN call.GH_TOKEN ELSE call.GITHUB_TOKEN

\* getLatestGitHubVersion with GH_TOKEN set sends no token.
C25_Witness ==
    /\ impl = "go" /\ ret # Nil
    /\ call.GH_TOKEN = "tokA" /\ call.GITHUB_TOKEN = "tokB"
    /\ ret.bearer = ""

\* Both version strings parse and latest is not greater than installed
ComparesNoUpdate(installed, latest) ==
    LET i == NewVersion(TrimPrefixV(installed))
        l == NewVersion(TrimPrefixV(latest))
    IN  i.ok /\ l.ok /\ ~GreaterThan(l, i)

\* Both version strings parse
Comparable(installed, latest) ==
    NewVersion(TrimPrefixV(installed)).ok /\ NewVersion(TrimPrefixV(latest)).ok

\* C26: Manager.Update of an installed tool returns already-up-to-date
\* without a command only when the latest version was fetched and compares
\* as no update; when the lookup fails or the versions cannot be compared
\* it selects a method and, if there is one, runs its command.
C26_UpdateAnywayWhenUnknown ==
    (last # Nil /\ last.op = "Update" /\ impl = "go") =>
        \A t \in DOMAIN last.res :
            InstalledOn(t, last.before[t]) =>
                /\ last.res[t].note = "already up to date" =>
                      /\ ~last.res[t].fetch.err
                      /\ ComparesNoUpdate(last.before[t].ver, last.res[t].fetch.ver)
                      /\ last.res[t].ran = <<>>
                /\ (\/ last.res[t].fetch.err
                    \/ ~Comparable(last.before[t].ver, last.res[t].fetch.ver)) =>
                      /\ Took(last.res[t], "select")
                      /\ (\E m \in Methods : ToolUsable(t, m)) => last.res[t].ran # <<>>

C26_Witness ==
    /\ last # Nil /\ last.entry = "Update" /\ impl = "go"
    /\ \E t \in DOMAIN last.res :
          /\ last.before[t] = RunYields(V130)
          /\ last.res[t].fetch = Failed
          /\ last.res[t].ran # <<>>
          /\ last.res[t].note = "updated"

C28_BestIsAvailable ==
    (impl = "go" /\ chosen # Nil) =>
        LET usable == GetAvailableInstallMethods(os, path, ispec) IN
        /\ chosen.method = NoMethod <=> usable = <<>>
        /\ chosen.method # NoMethod =>
              \E i \in 1..Len(usable) : usable[i] = chosen.method

\* a Linux host with brew and npm but no apt: the list is brew, npm, script
\* and the method is brew, neither the first field nor the last
C28_Witness ==
    /\ impl = "go" /\ chosen # Nil /\ os = "linux"
    /\ ispec = SpecOf({"winget", "apt", "brew", "npm", "script"})
    /\ path = {"brew", "npm", "winget"}
    /\ GetAvailableInstallMethods(os, path, ispec) = <<"brew", "npm", "script">>
    /\ chosen.method = "brew"

-----------------------------------------------------------------------------
(* The command Update runs for winget                                      *)

\* Command lines, one character per element
WingetInstallA ==
    <<"w", "i", "n", "g", "e", "t", " ", "i", "n", "s", "t", "a", "l", "l", " ", "A">>
WingetInstallIdA ==
    <<"w", "i", "n", "g", "e", "t", " ", "i", "n", "s", "t", "a", "l", "l", " ",
      "-", "-", "i", "d", " ", "A">>
WingetSearchA ==
    <<"w", "i", "n", "g", "e", "t", " ", "s", "e", "a", "r", "c", "h", " ", "A">>
WingetxInstallA ==
    <<"w", "i", "n", "g", "e", "t", "x", " ", "i", "n", "s", "t", "a", "l", "l", " ", "A">>
NpmInstallA ==
    <<"n", "p", "m", " ", "i", "n", "s", "t", "a", "l", "l", " ", "-", "g", " ", "A">>

WingetWord == SubSeq(WingetInstallA, 1, 6)
WingetInstallWords == SubSeq(WingetInstallA, 1, 14)
WingetUpgradeWords ==
    <<"w", "i", "n", "g", "e", "t", " ", "u", "p", "g", "r", "a", "d", "e">>

\* Values of InstallSpec.WinGet: every prefix of a winget install command
\* (the empty field included), and commands of other shapes
CommandPool ==
    {SubSeq(WingetInstallA, 1, n) : n \in 0..Len(WingetInstallA)}
        \cup {WingetInstallIdA, WingetSearchA, WingetxInstallA, NpmInstallA}

Panic == [panic |-> TRUE, out |-> <<>>]
Returned(out) == [panic |-> FALSE, out |-> out]

\* replaceWingetInstallWithUpgrade: installCmd[14:] panics with a slice
\* bound out of range when the string has fewer than 14 bytes
replaceWingetInstallWithUpgrade(installCmd) ==
    IF Len(installCmd) > 6 /\ SubSeq(installCmd, 1, 6) = WingetWord
    THEN IF Len(installCmd) < 14 THEN Panic
         ELSE Returned(WingetUpgradeWords \o SubSeq(installCmd, 15, Len(installCmd)))
    ELSE Returned(installCmd)

\* The InstallSpec of a tool whose WinGet and Npm fields hold these texts
RewriteSpec(c) ==
    SpecOf((IF c.WinGet # <<>> THEN {"winget"} ELSE {})
              \cup (IF c.Npm # <<>> THEN {"npm"} ELSE {}))

\* Manager.Update from GetBestInstallMethod to platform.NewShellCommand:
\* the method and the command line handed to the shell
UpdateCommand(o, p, c) ==
    LET method == GetBestInstallMethod(o, p, RewriteSpec(c))
        command == CASE method = "winget" -> c.WinGet
                     [] method = "npm" -> c.Npm
                     [] OTHER -> <<>>
    IN  IF method = NoMethod
        THEN [method |-> method, rewritten |-> FALSE, cmd |-> Returned(<<>>)]
        ELSE IF IsWindows(o) /\ method = "winget" /\ c.WinGet # <<>>
        THEN [method |-> method, rewritten |-> TRUE,
              cmd |-> replaceWingetInstallWithUpgrade(c.WinGet)]
        ELSE [method |-> method, rewritten |-> FALSE, cmd |-> Returned(command)]

RewriteInit ==
    /\ AggIdle /\ SelIdle /\ OrchIdle /\ CmpIdle /\ SpinIdle
    /\ impl = "go"
    /\ \E h \in HostPool : os = h[1] /\ path = h[2]
    /\ \E w \in CommandPool, n \in {<<>>, NpmInstallA} :
          call = [WinGet |-> w, Npm |-> n]
    /\ ret = Nil

\* m.Update(tool) reaches cmd := platform.NewShellCommand(command)
UpdateBuildsCommand ==
    /\ call # Nil /\ ret = Nil
    /\ ret' = UpdateCommand(os, path, call)
    /\ UNCHANGED <<hostVars, cmpVars, spinVars, aggVars, selVars, orchVars, call>>

SpecRewrite == RewriteInit /\ [][UpdateBuildsCommand]_vars

\* C29: the rewrite never fails; a command beginning with "winget install"
\* becomes "winget upgrade" followed by the same remainder, and every other
\* command is returned unchanged.
C29_RewriteTotal ==
    (ret # Nil /\ ret.rewritten) =>
        /\ ~ret.cmd.panic
        /\ ret.cmd.out =
              IF Len(call.WinGet) >= 14 /\ SubSeq(call.WinGet, 1, 14) = WingetInstallWords
              THEN WingetUpgradeWords \o SubSeq(call.WinGet, 15, Len(call.WinGet))
              ELSE call.WinGet

\* "winget inst" (11 bytes) on a Windows host where winget is the method
C29_Witness ==
    /\ ret # Nil /\ ret.rewritten /\ ret.method = "winget" /\ os = "windows"
    /\ call.WinGet = SubSeq(WingetInstallA, 1, 11)
    /\ ret.cmd.panic

-----------------------------------------------------------------------------
(* ui.Spinner                                                              *)

\* len(s.frames)
NumFrames == 10

\* NewSpinner: not running, first frame, nobody holds mu, no animation
\* goroutine
SpinInit ==
    /\ AggIdle /\ SelIdle /\ OrchIdle /\ CmpIdle /\ FnIdle
    /\ impl = "go"
    /\ \E h \in HostPool : os = h[1] /\ path = h[2]
    /\ running = FALSE
    /\ mu = "free"
    /\ spinCurrent = 0
    /\ caller = "idle"
    /\ anim = "none"

\* The owner of the spinner calls s.Start() and reaches s.mu.Lock()
CallStart ==
    /\ caller = "idle"
    /\ caller' = "Start.lock"
    /\ UNCHANGED <<hostVars, cmpVars, fnVars, aggVars, selVars, orchVars, running, mu, spinCurrent, anim>>

\* Start: s.mu.Lock() returns
StartLock ==
    /\ caller = "Start.lock" /\ mu = "free"
    /\ mu' = "caller"
    /\ caller' = "Start.locked"
    /\ UNCHANGED <<hostVars, cmpVars, fnVars, aggVars, selVars, orchVars, running, spinCurrent, anim>>

\* Start: if s.running { unlock; return }; s.running = true; unlock
StartBody ==
    /\ caller = "Start.locked"
    /\ mu' = "free"
    /\ IF running
       THEN caller' = "idle" /\ UNCHANGED running
       ELSE caller' = "Start.go" /\ running' = TRUE
    /\ UNCHANGED <<hostVars, cmpVars, fnVars, aggVars, selVars, orchVars, spinCurrent, anim>>

\* Start: go func() { ... }() and return; the goroutine reaches its select
StartGo ==
    /\ caller = "Start.go"
    /\ anim' = "select"
    /\ caller' = "idle"
    /\ UNCHANGED <<hostVars, cmpVars, fnVars, aggVars, selVars, orchVars, running, mu, spinCurrent>>

\* The goroutine's select takes case <-ticker.C and reaches s.mu.Lock()
AnimTick ==
    /\ anim = "select"
    /\ anim' = "tick.lock"
    /\ UNCHANGED <<hostVars, cmpVars, fnVars, aggVars, selVars, orchVars, running, mu, spinCurrent, caller>>

\* The goroutine's s.mu.Lock() returns
AnimLock ==
    /\ anim = "tick.lock" /\ mu = "free"
    /\ mu' = "anim"
    /\ anim' = "tick.locked"
    /\ UNCHANGED <<hostVars, cmpVars, fnVars, aggVars, selVars, orchVars, running, spinCurrent, caller>>

\* The goroutine prints the frame, advances s.current and unlocks
AnimFrame ==
    /\ anim = "tick.locked"
    /\ spinCurrent' = (spinCurrent + 1) % NumFrames
    /\ mu' = "free"
    /\ anim' = "select"
    /\ UNCHANGED <<hostVars, cmpVars, fnVars, aggVars, selVars, orchVars, running, caller>>

\* The owner calls s.Stop() (directly or through Success / Error) and reaches
\* s.mu.Lock()
CallStop ==
    /\ caller = "idle"
    /\ caller' = "Stop.lock"
    /\ UNCHANGED <<hostVars, cmpVars, fnVars, aggVars, selVars, orchVars, running, mu, spinCurrent, anim>>

\* Stop: s.mu.Lock() returns; defer s.mu.Unlock()
StopLock ==
    /\ caller = "Stop.lock" /\ mu = "free"
    /\ mu' = "caller"
    /\ caller' = "Stop.locked"
    /\ UNCHANGED <<hostVars, cmpVars, fnVars, aggVars, selVars, orchVars, running, spinCurrent, anim>>

\* Stop: if !s.running { return }; s.running = false; reach s.done <- true
StopBody ==
    /\ caller = "Stop.locked"
    /\ IF running
       THEN running' = FALSE /\ caller' = "Stop.send" /\ UNCHANGED mu
       ELSE caller' = "idle" /\ mu' = "free" /\ UNCHANGED running
    /\ UNCHANGED <<hostVars, cmpVars, fnVars, aggVars, selVars, orchVars, spinCurrent, anim>>

\* s.done <- true meets case <-s.done of the select: done is unbuffered, so
\* the send completes only when the goroutine is at its select; the
\* goroutine returns
StopSend ==
    /\ caller = "Stop.send" /\ anim = "select"
    /\ caller' = "Stop.clear"
    /\ anim' = "none"
    /\ UNCHANGED <<hostVars, cmpVars, fnVars, aggVars, selVars, orchVars, running, mu, spinCurrent>>

\* Stop clears the line and returns; the deferred Unlock runs
StopReturn ==
    /\ caller = "Stop.clear"
    /\ mu' = "free"
    /\ caller' = "idle"
    /\ UNCHANGED <<hostVars, cmpVars, fnVars, aggVars, selVars, orchVars, running, spinCurrent, anim>>

SpinSteps ==
    \/ StartLock \/ StartBody \/ StartGo
    \/ AnimTick \/ AnimLock \/ AnimFrame
    \/ StopLock \/ StopBody \/ StopSend \/ StopReturn

SpinNext == CallStart \/ CallStop \/ SpinSteps

SpecSpin == SpinInit /\ [][SpinNext]_vars

\* Every goroutine that can take a step eventually takes one and the ticker
\* keeps firing. A goroutine waiting in s.mu.Lock() is not overtaken for
\* ever (sync.Mutex hands the lock to a starving waiter), hence SF for the
\* lock steps. Whether the owner calls Start or Stop again is up to it.
FairSpecSpin ==
    /\ SpecSpin
    /\ SF_vars(StartLock) /\ WF_vars(StartBody) /\ WF_vars(StartGo)
    /\ WF_vars(AnimTick) /\ SF_vars(AnimLock) /\ WF_vars(AnimFrame)
    /\ SF_vars(StopLock) /\ WF_vars(StopBody) /\ WF_vars(StopSend)
    /\ WF_vars(StopReturn)

InStop == caller \in {"Stop.lock", "Stop.locked", "Stop.send", "Stop.clear"}

\* C30: every call to Stop made after Start eventually returns, under every
\* interleaving with the animation goroutine.
C30_StopReturns == (running /\ InStop) ~> (caller = "idle")

\* Stop holds mu and waits to send on done; the goroutine has taken a tick
\* and waits for mu
C30_Witness ==
    /\ caller = "Stop.send" /\ mu = "caller" /\ ~running
    /\ anim = "tick.lock"
    /\ ~ENABLED SpinSteps

====
